---- MODULE Spec2Model ----
(***************************************************************************)
(* Model of the DevJanna/loader ingestion pipeline: the Cloud Storage      *)
(* event handler helloGCS, the three file families (AmChua, BaRia and the  *)
(* generic tabular CSV), and the MongoDB writer.  Every store call is one  *)
(* atomic step, so that overlapping invocations interleave at store calls. *)
(***************************************************************************)
EXTENDS Integers, Sequences, FiniteSets, TLC

(***************************************************************************)
(* Bounds of the model.                                                    *)
(***************************************************************************)
\* number of events delivered in one behaviour; also the range of the
\* wall clock time.Now() (one tick per delivery)
MaxDeliveries == 2
\* BATCH_SIZE of config.go:125 is 1024; the model scales it down so that a
\* file of MaxRows rows needs more than one batch
BATCH_SIZE == 2
\* number of transient store failures in one behaviour
MaxFaults == 1

Procs == {"p1", "p2"}

(***************************************************************************)
(* Process-wide configuration.                                             *)
(***************************************************************************)
\* parseIntEnv("TIMEZONE_OFFSET", 7)
TimezoneOffset == 7
EVENT_MAX_AGE_SECONDS == 86400
MIN_EVENT_AGE_SECONDS == 300

\* epoch seconds of 2025-12-27T00:00:00Z, the day of every modelled date-time
DayEpoch == 20449 * 86400

Metric(code, name) == [Code |-> code, Name |-> name]

BoxesBR ==
  << [ID |-> "S83FIGA0", Path |-> "HoSongRay_KenhSongRay",
      Metrics |-> <<Metric("WAU", "MNK"), Metric("DR1", "Domocong")>>],
     [ID |-> "A3M6KKN6", Path |-> "HoSongRay_HaLuu",
      Metrics |-> <<Metric("WAD", "MNH")>>],
     [ID |-> "L3Q7718O", Path |-> "HoDaBang_TramDoMN+MoCong",
      Metrics |-> <<Metric("WAU", "MNH"), Metric("DR1", "Domocong")>>],
     [ID |-> "45J68MTA", Path |-> "HoXuyenMoc_TramDoMN+MoCong",
      Metrics |-> <<Metric("WAU", "MNH"), Metric("DR1", "Domocong_0")>>],
     [ID |-> "V51HBHL0", Path |-> "HoSuoiCac_TramDoMN+MoCong",
      Metrics |-> <<Metric("WAU", "MNH"), Metric("DR1", "Domocong_0")>>],
     [ID |-> "2Y63JKZ2", Path |-> "HoKimLong_TramDoMoCong",
      Metrics |-> <<Metric("DR1", "Domocong_KimLong_0")>>],
     [ID |-> "KEHF4MGC", Path |-> "HoKimLong_TramDoMucNuoc",
      Metrics |-> <<Metric("WAU", "MNH_KimLong")>>],
     [ID |-> "JRUTJ9KX", Path |-> "HoChauPha",
      Metrics |-> <<Metric("WAU", "MNH_ChauPha"), Metric("DR1", "Domocong")>>] >>

AmChuaBoxes ==
  << [ID |-> "P7IBJJ87", Metrics |-> <<Metric("RA", "rain_1")>>],
     [ID |-> "LPDNWOUM", Metrics |-> <<Metric("WAU", "waterup")>>],
     [ID |-> "YLW16RKW", Metrics |-> <<Metric("DR1", "TaperValve")>>],
     [ID |-> "RIENVHK4", Metrics |-> <<Metric("DR1", "drain_1"), Metric("DR2", "drain_2")>>],
     [ID |-> "T5CRC2FV", Metrics |-> <<Metric("RA", "rain_2")>>] >>

AmChuaMarker == "HoAmChua_TramTT"

FieldNameMapping ==
  << [Code |-> "WA", Alias |-> "water"], [Code |-> "WAU", Alias |-> "water_up"],
     [Code |-> "WAD", Alias |-> "water_do"], [Code |-> "WAO", Alias |-> "water_overflow"],
     [Code |-> "DR", Alias |-> "drain"], [Code |-> "DR1", Alias |-> "drain_1"],
     [Code |-> "DR2", Alias |-> "drain_2"], [Code |-> "DR3", Alias |-> "drain_3"],
     [Code |-> "SA", Alias |-> "salt"], [Code |-> "RA", Alias |-> "rain"],
     [Code |-> "TE", Alias |-> "temp"], [Code |-> "VO", Alias |-> "volt"],
     [Code |-> "WP", Alias |-> "water_proof"], [Code |-> "WP1", Alias |-> "water_proof_1"],
     [Code |-> "WP2", Alias |-> "water_proof_2"], [Code |-> "WP3", Alias |-> "water_proof_3"],
     [Code |-> "WP4", Alias |-> "water_proof_4"], [Code |-> "TI", Alias |-> "tilt"],
     [Code |-> "TIS", Alias |-> "tilt_shift"] >>

\* init(): AliasToCode[mapping.Alias] = mapping.Code, later entries overwrite
RECURSIVE BuildAliasToCode(_, _)
BuildAliasToCode(m, list) ==
  IF list = <<>> THEN m
  ELSE BuildAliasToCode((Head(list).Alias :> Head(list).Code) @@ m, Tail(list))

EmptyMap == [x \in {} |-> 0]

AliasToCode == BuildAliasToCode(EmptyMap, FieldNameMapping)

\* the "box" collection of the database: device_id -> box _id
BoxCollection == (<<"CR300", "19531">> :> "S83FIGA0")

\* every sensor_data_<id> collection the modelled files can address
BoxIds ==
  {BoxesBR[i].ID : i \in DOMAIN BoxesBR} \cup
  {AmChuaBoxes[i].ID : i \in DOMAIN AmChuaBoxes} \cup
  {BoxCollection[d] : d \in DOMAIN BoxCollection}

(***************************************************************************)
(* Strings that carry a date-time.  A string is modelled by its layout     *)
(* ("compact" = 14 digits YYYYMMDDhhmmss, "dashed" = YYYY-MM-DD hh:mm:ss,  *)
(* "text" = anything else), its length and the clock fields it spells.     *)
(***************************************************************************)
Compact(h, m, s) == [fmt |-> "compact", len |-> 14, hh |-> h, mm |-> m, ss |-> s]
Dashed(h, m, s) == [fmt |-> "dashed", len |-> 19, hh |-> h, mm |-> m, ss |-> s]
Text(n) == [fmt |-> "text", len |-> n, hh |-> 0, mm |-> 0, ss |-> 0]

\* time.ParseInLocation(layout, s, GlobalConfig.TimezoneLocation).Unix()
ParseInLocation(layout, s) ==
  IF s.fmt # layout \/ s.hh > 23 \/ s.mm > 59 \/ s.ss > 59
  THEN [err |-> "parse", unix |-> 0]
  ELSE [err |-> "nil",
        unix |-> DayEpoch + s.hh * 3600 + s.mm * 60 + s.ss - TimezoneOffset * 3600]

\* TruncateMinute that keeps the seconds
TruncateNone(unix) == unix

\* t.Truncate(time.Minute).Unix()
TruncateMinute(unix) == unix - (unix % 60)

(***************************************************************************)
(* File names.  A name is the set of directory markers its path contains,  *)
(* its base name (extension stripped) as the parts between underscores,    *)
(* and its extension.                                                      *)
(***************************************************************************)
FileName(dirs, base, ext) == [dirs |-> dirs, base |-> base, ext |-> ext]

RECURSIVE SumLen(_)
SumLen(parts) == IF parts = <<>> THEN 0 ELSE Head(parts).len + SumLen(Tail(parts))

\* len(base): the parts and the underscores between them
BaseLen(filename) == SumLen(filename.base) + (Len(filename.base) - 1)

\* strings.Contains(filename, "HoAmChua_TramTT")
IsAmChuaFile(filename) == AmChuaMarker \in filename.dirs

\* first box of BoxesBR whose Path is a substring of the path; 0 for nil
RECURSIVE MatchFrom(_, _)
MatchFrom(filename, i) ==
  IF i > Len(BoxesBR) THEN 0
  ELSE IF BoxesBR[i].Path \in filename.dirs THEN i
  ELSE MatchFrom(filename, i + 1)

\* MatchBariaBox that keeps the last matching box of BoxesBR instead of the first
MatchBariaBoxLast(filename) ==
  IF \A i \in DOMAIN BoxesBR : BoxesBR[i].Path \notin filename.dirs THEN 0
  ELSE CHOOSE i \in DOMAIN BoxesBR :
         /\ BoxesBR[i].Path \in filename.dirs
         /\ \A j \in DOMAIN BoxesBR : BoxesBR[j].Path \in filename.dirs => j <= i

MatchBariaBox(filename) == MatchFrom(filename, 1)

IsBariaFile(filename) == MatchBariaBox(filename) # 0

\* ParseBariaTimestampFromFilename without the test for a missing underscore
ParseBariaTimestampNoUnderscore(filename) ==
  LET t == ParseInLocation("compact", filename.base[Len(filename.base)])
  IN  IF t.err # "nil" THEN [err |-> t.err, ts |-> 0]
      ELSE [err |-> "nil", ts |-> TruncateMinute(t.unix)]

ParseBariaTimestampFromFilename(filename) ==
  IF Len(filename.base) < 2
  THEN [err |-> "invalid baria filename", ts |-> 0]
  ELSE LET t == ParseInLocation("compact", filename.base[Len(filename.base)])
       IN  IF t.err # "nil" THEN [err |-> t.err, ts |-> 0]
           ELSE [err |-> "nil", ts |-> TruncateMinute(t.unix)]

parseFilenameForTimestamp(filename) ==
  IF BaseLen(filename) # 14
  THEN [err |-> "incorrect length", ts |-> 0]
  ELSE LET t == IF Len(filename.base) = 1
                THEN ParseInLocation("compact", filename.base[1])
                ELSE [err |-> "parse", unix |-> 0]
       IN  IF t.err # "nil" THEN [err |-> "failed to parse time string", ts |-> 0]
           ELSE [err |-> "nil", ts |-> TruncateMinute(t.unix)]

(***************************************************************************)
(* Key-value content (AmChua, BaRia).  A line is its separator, its number *)
(* of tokens, its key and its value token; a value token is a number or a  *)
(* text that strconv.ParseFloat rejects.                                   *)
(***************************************************************************)
Num(v) == [ok |-> TRUE, v |-> v]
NotNum == [ok |-> FALSE, v |-> 0]
Line(sep, ntok, key, val) == [sep |-> sep, ntok |-> ntok, key |-> key, val |-> val]

\* strconv.ParseFloat(s, 64)
ParseFloat(s) == IF s.ok THEN [err |-> "nil", v |-> s.v] ELSE [err |-> "syntax", v |-> 0]

\* ProcessBariaFile step 3: strings.Split(line, "\t"), bad values are skipped
RECURSIVE BariaValueMap(_, _)
BariaValueMap(valueMap, lines) ==
  IF lines = <<>> THEN valueMap
  ELSE LET line == Head(lines)
           nparts == IF line.sep = "tab" THEN line.ntok ELSE 1
       IN  IF nparts < 2 THEN BariaValueMap(valueMap, Tail(lines))
           ELSE IF ParseFloat(line.val).err # "nil"
                THEN BariaValueMap(valueMap, Tail(lines))
                ELSE BariaValueMap((line.key :> ParseFloat(line.val).v) @@ valueMap,
                                   Tail(lines))

\* AmChuaValueMap that skips a line whose value does not parse
RECURSIVE AmChuaValueMapSkip(_, _)
AmChuaValueMapSkip(valueMap, lines) ==
  IF lines = <<>> THEN [abort |-> FALSE, valueMap |-> valueMap]
  ELSE LET line == Head(lines)
       IN  IF line.ntok >= 2 /\ ParseFloat(line.val).err = "nil"
           THEN AmChuaValueMapSkip((line.key :> ParseFloat(line.val).v) @@ valueMap,
                                   Tail(lines))
           ELSE AmChuaValueMapSkip(valueMap, Tail(lines))

\* ProcessAmChuaFile: strings.Fields(line), a bad value ends the file
RECURSIVE AmChuaValueMap(_, _)
AmChuaValueMap(valueMap, lines) ==
  IF lines = <<>> THEN [abort |-> FALSE, valueMap |-> valueMap]
  ELSE LET line == Head(lines)
       IN  IF line.ntok >= 2
           THEN IF ParseFloat(line.val).err # "nil"
                THEN [abort |-> TRUE, valueMap |-> valueMap]
                ELSE AmChuaValueMap((line.key :> ParseFloat(line.val).v) @@ valueMap,
                                    Tail(lines))
           ELSE AmChuaValueMap(valueMap, Tail(lines))

\* AddMetrics that leaves out a metric absent from the input
RECURSIVE AddMetricsNoZero(_, _, _)
AddMetricsNoZero(doc, metrics, valueMap) ==
  IF metrics = <<>> THEN doc
  ELSE LET m == Head(metrics)
       IN  IF m.Name \in DOMAIN valueMap
           THEN AddMetricsNoZero((m.Code :> valueMap[m.Name]) @@ doc, Tail(metrics), valueMap)
           ELSE AddMetricsNoZero(doc, Tail(metrics), valueMap)

\* doc := bson.M{"_id": ts, "c": now}; for each metric doc[Code] = value or 0
RECURSIVE AddMetrics(_, _, _)
AddMetrics(doc, metrics, valueMap) ==
  IF metrics = <<>> THEN doc
  ELSE LET m == Head(metrics)
           v == IF m.Name \in DOMAIN valueMap THEN valueMap[m.Name] ELSE 0
       IN  AddMetrics((m.Code :> v) @@ doc, Tail(metrics), valueMap)

BuildDocument(ts, now, metrics, valueMap) ==
  AddMetrics(("_id" :> ts) @@ ("c" :> now), metrics, valueMap)

(***************************************************************************)
(* Tabular content (generic CSV).  lines[0] = meta, lines[1] = columns,    *)
(* lines[2..3] ignored, lines[4..] = data rows; a cell is a date-time      *)
(* string, a number or a text.                                             *)
(***************************************************************************)
TimeCell(h, m, s) == [s |-> Dashed(h, m, s), num |-> NotNum]
NumCell(v) == [s |-> Text(1), num |-> Num(v)]
TextCell == [s |-> Text(3), num |-> NotNum]

\* ExtractObject's column loop with every header emitted as it is written
RECURSIVE AddColumnsRaw(_, _, _, _)
AddColumnsRaw(record, row, columns, i) ==
  IF ~(i <= Len(row) /\ i <= Len(columns)) THEN record
  ELSE LET f == ParseFloat(row[i].num)
       IN  IF f.err # "nil" THEN AddColumnsRaw(record, row, columns, i + 1)
           ELSE AddColumnsRaw((columns[i] :> f.v) @@ record, row, columns, i + 1)

RECURSIVE AddColumns(_, _, _, _)
AddColumns(record, row, columns, i) ==
  IF ~(i <= Len(row) /\ i <= Len(columns)) THEN record
  ELSE LET f == ParseFloat(row[i].num)
           k == columns[i]
       IN  IF f.err # "nil" THEN AddColumns(record, row, columns, i + 1)
           ELSE IF k \in DOMAIN AliasToCode
                THEN AddColumns((AliasToCode[k] :> f.v) @@ record, row, columns, i + 1)
                ELSE AddColumns((k :> f.v) @@ record, row, columns, i + 1)

\* ExtractObject's row loop ending at the first row without a time or number
RECURSIVE ExtractRowsFatal(_, _, _)
ExtractRowsFatal(records, columns, data) ==
  IF data = <<>> THEN records
  ELSE LET row == Head(data)
       IN  IF Len(row) < 2 THEN ExtractRowsFatal(records, columns, Tail(data))
           ELSE LET t == ParseInLocation("dashed", row[1].s)
                    n == ParseFloat(row[2].num)
                IN  IF t.err # "nil" \/ n.err # "nil"
                    THEN records
                    ELSE ExtractRowsFatal(
                           Append(records,
                                  AddColumns(("_id" :> t.unix) @@ ("n" :> n.v),
                                             row, columns, 3)),
                           columns, Tail(data))

RECURSIVE ExtractRows(_, _, _)
ExtractRows(records, columns, data) ==
  IF data = <<>> THEN records
  ELSE LET row == Head(data)
       IN  IF Len(row) < 2 THEN ExtractRows(records, columns, Tail(data))
           ELSE LET t == ParseInLocation("dashed", row[1].s)
                    n == ParseFloat(row[2].num)
                IN  IF t.err # "nil" \/ n.err # "nil"
                    THEN ExtractRows(records, columns, Tail(data))
                    ELSE ExtractRows(
                           Append(records,
                                  AddColumns(("_id" :> t.unix) @@ ("n" :> n.v),
                                             row, columns, 3)),
                           columns, Tail(data))

ExtractObject(meta, columns, data) ==
  IF Len(meta) < 4
  THEN [err |-> "meta data has insufficient fields", device_id |-> <<"", "">>,
        records |-> <<>>]
  ELSE [err |-> "nil", device_id |-> <<meta[3], meta[4]>>,
        records |-> ExtractRows(<<>>, columns, data)]

\* content: [kind, lines (key-value) | meta, columns, rows (tabular), shape];
\* shape names the line group encoding/csv cannot read ("ok" when it reads all)
NumLines(content) ==
  IF content.kind = "kv" THEN Len(content.lines) ELSE 4 + Len(content.rows)

ExtractData(content) ==
  IF NumLines(content) < 5
  THEN [err |-> "CSV has insufficient lines", device_id |-> <<"", "">>,
        records |-> <<>>]
  ELSE IF content.shape = "meta"
  THEN [err |-> "failed to parse meta line", device_id |-> <<"", "">>, records |-> <<>>]
  ELSE IF content.shape = "columns"
  THEN [err |-> "failed to parse columns line", device_id |-> <<"", "">>, records |-> <<>>]
  ELSE IF content.shape = "records"
  THEN [err |-> "failed to parse CSV records", device_id |-> <<"", "">>, records |-> <<>>]
  ELSE ExtractObject(content.meta, content.columns, content.rows)

(***************************************************************************)
(* The document store.  A collection is a set of documents; the store      *)
(* keeps a unique index on _id.  A call either reaches the store or fails  *)
(* with a transient (network / availability) error.                        *)
(***************************************************************************)
DuplicateKey == "E11000 duplicate key error"
Unavailable == "server selection error"
ErrNoDocuments == "mongo: no documents in result"

Keys(col) == {d["_id"] : d \in col}

\* InsertOne against a collection without the unique index on _id
InsertOneNoIndex(col, doc, down) ==
  IF down THEN [col |-> col, err |-> Unavailable]
  ELSE [col |-> col \cup {doc}, err |-> "nil"]

\* InsertOne turned into a replace-or-insert on _id
InsertOneUpsert(col, doc, down) ==
  IF down THEN [col |-> col, err |-> Unavailable]
  ELSE [col |-> {d \in col : d["_id"] # doc["_id"]} \cup {doc},
        err |-> IF doc["_id"] \in Keys(col) THEN DuplicateKey ELSE "nil"]

\* col.InsertOne(ctx, doc)
InsertOne(col, doc, down) ==
  IF down THEN [col |-> col, err |-> Unavailable]
  ELSE IF doc["_id"] \in Keys(col) THEN [col |-> col, err |-> DuplicateKey]
  ELSE [col |-> col \cup {doc}, err |-> "nil"]

\* col.InsertMany(ctx, docs, SetOrdered(false)): every document is tried,
\* n = len(result.InsertedIDs); a transient failure cuts the call after the
\* first `reach` documents
RECURSIVE InsertMany(_, _, _, _)
InsertMany(col, docs, down, reach) ==
  IF docs = <<>> \/ (down /\ reach = 0)
  THEN [col |-> col, n |-> 0, err |-> IF down THEN Unavailable ELSE "nil"]
  ELSE LET one == InsertOne(col, Head(docs), FALSE)
           rest == InsertMany(one.col, Tail(docs), down, reach - 1)
       IN  [col |-> rest.col,
            n |-> rest.n + (IF one.err = "nil" THEN 1 ELSE 0),
            err |-> IF rest.err = Unavailable THEN Unavailable
                    ELSE IF one.err = DuplicateKey THEN DuplicateKey
                    ELSE rest.err]

\* col.FindOne(ctx, bson.M{}, SetSort({"_id": -1}))
FindLatest(col, down) ==
  IF down THEN [err |-> Unavailable, doc |-> EmptyMap]
  ELSE IF col = {} THEN [err |-> ErrNoDocuments, doc |-> EmptyMap]
  ELSE [err |-> "nil",
        doc |-> CHOOSE d \in col : \A e \in col : e["_id"] <= d["_id"]]

\* a lookup in the "box" collection that answers with the first BaRia box
FindDeviceOther(deviceID, down) ==
  IF down THEN [err |-> Unavailable, id |-> ""]
  ELSE [err |-> "nil", id |-> BoxesBR[1].ID]

\* boxCol.FindOne(ctx, bson.M{"device_id": deviceID})
FindDevice(deviceID, down) ==
  IF down THEN [err |-> Unavailable, id |-> ""]
  ELSE IF deviceID \notin DOMAIN BoxCollection THEN [err |-> ErrNoDocuments, id |-> ""]
  ELSE [err |-> "nil", id |-> BoxCollection[deviceID]]

(***************************************************************************)
(* The writer (mongodb.go) and the insert sites of the two single-record   *)
(* families.                                                               *)
(***************************************************************************)
\* strings.Contains(err.Error(), "duplicate key")
IsDuplicateKey(err) == err = DuplicateKey

\* BariaInsertResult without the duplicate-key test
BariaInsertResultNoDup(err) ==
  IF err # "nil" THEN [count |-> 0, err |-> err] ELSE [count |-> 1, err |-> "nil"]

\* BariaInsertResult that counts an insert answered with a duplicate key
BariaInsertResultCountDup(err) ==
  IF err # "nil"
  THEN IF IsDuplicateKey(err) THEN [count |-> 1, err |-> "nil"]
       ELSE [count |-> 0, err |-> err]
  ELSE [count |-> 1, err |-> "nil"]

\* ProcessBariaFile step 5: the (count, error) returned after InsertOne
BariaInsertResult(err) ==
  IF err # "nil"
  THEN IF IsDuplicateKey(err) THEN [count |-> 0, err |-> "nil"]
       ELSE [count |-> 0, err |-> err]
  ELSE [count |-> 1, err |-> "nil"]

\* AmChuaInsertCount that also counts an insert answered with a duplicate key
AmChuaInsertCountDup(insertedCount, err) ==
  IF err # "nil"
  THEN IF IsDuplicateKey(err) THEN insertedCount + 1 ELSE insertedCount
  ELSE insertedCount + 1

\* ProcessAmChuaFile loop body after InsertOne: the new insertedCount
AmChuaInsertCount(insertedCount, err) ==
  IF err # "nil"
  THEN IF IsDuplicateKey(err) THEN insertedCount ELSE insertedCount
  ELSE insertedCount + 1

InsertBatch(col, data, down, reach) ==
  IF Len(data) < 1 THEN [col |-> col, count |-> 0, err |-> "nil"]
  ELSE LET r == InsertMany(col, data, down, reach)
       IN  IF r.err # "nil"
           THEN IF IsDuplicateKey(r.err) THEN [col |-> r.col, count |-> 0, err |-> "nil"]
                ELSE [col |-> r.col, count |-> 0, err |-> r.err]
           ELSE [col |-> r.col, count |-> r.n, err |-> "nil"]

\* ProcessCSVFile with the lookup error handed on to the caller
FindBoxResultError(err) == [count |-> 0, err |-> err]

\* ProcessCSVFile lines 346-349: a failed box lookup is logged, (0, nil) returned
FindBoxResult(err) == [count |-> 0, err |-> "nil"]

FindBoxByDeviceID(deviceID, down) ==
  LET r == FindDevice(deviceID, down)
  IN  IF r.err # "nil"
      THEN IF r.err = ErrNoDocuments THEN [err |-> "unknown device_id", id |-> ""]
           ELSE [err |-> "failed to find box", id |-> ""]
      ELSE [err |-> "nil", id |-> r.id]

\* GetLatestRecord: (nil, nil) for an empty collection
GetLatestRecord(col, down) ==
  LET r == FindLatest(col, down)
  IN  IF r.err # "nil"
      THEN IF r.err = ErrNoDocuments THEN [err |-> "nil", found |-> FALSE, doc |-> EmptyMap]
           ELSE [err |-> "failed to query latest record", found |-> FALSE, doc |-> EmptyMap]
      ELSE [err |-> "nil", found |-> TRUE, doc |-> r.doc]

\* FilterNewRecords with rID >= maxID
RECURSIVE FilterNewRecordsGE(_, _)
FilterNewRecordsGE(records, maxID) ==
  IF records = <<>> THEN <<>>
  ELSE IF Head(records)["_id"] >= maxID
       THEN <<Head(records)>> \o FilterNewRecordsGE(Tail(records), maxID)
       ELSE FilterNewRecordsGE(Tail(records), maxID)

RECURSIVE FilterNewRecords(_, _)
FilterNewRecords(records, maxID) ==
  IF records = <<>> THEN <<>>
  ELSE IF Head(records)["_id"] > maxID
       THEN <<Head(records)>> \o FilterNewRecords(Tail(records), maxID)
       ELSE FilterNewRecords(Tail(records), maxID)

\* InsertSensorRecords lines 188-209: the records handed to InsertIgnoreDuplicate
SelectToInsert(latest, records) ==
  IF latest.found THEN FilterNewRecords(records, latest.doc["_id"]) ELSE records

\* BatchAt that takes one record more than BATCH_SIZE
BatchAtOverlap(data, i) ==
  LET end == IF i + BATCH_SIZE + 1 > Len(data) THEN Len(data) ELSE i + BATCH_SIZE + 1
  IN  SubSeq(data, i + 1, end)

\* InsertIgnoreDuplicate: data[i:end] for the batch starting at offset i (0-based)
BatchAt(data, i) ==
  LET end == IF i + BATCH_SIZE > Len(data) THEN Len(data) ELSE i + BATCH_SIZE
  IN  SubSeq(data, i + 1, end)

(***************************************************************************)
(* Admission (file patterns) and event age.  A compiled pattern is         *)
(* modelled by the set of extensions of the names it matches.              *)
(***************************************************************************)
MatchString(pattern, filename) == filename.ext \in pattern

AllowPatterns == << {"txt"}, {"csv", "tmp"} >>
IgnorePatterns == << {"tmp"} >>

\* ShouldProcessFile that admits every name when no allow pattern is set
ShouldProcessFileAllowUnset(filename, allow, ignore) ==
  IF \E i \in DOMAIN ignore : MatchString(ignore[i], filename) THEN FALSE
  ELSE IF Len(allow) < 1 THEN TRUE
  ELSE IF \E i \in DOMAIN allow : MatchString(allow[i], filename) THEN TRUE
  ELSE FALSE

ShouldProcessFile(filename, allow, ignore) ==
  IF Len(allow) < 1 THEN FALSE
  ELSE IF \E i \in DOMAIN ignore : MatchString(ignore[i], filename) THEN FALSE
  ELSE IF \E i \in DOMAIN allow : MatchString(allow[i], filename) THEN TRUE
  ELSE FALSE

\* MatchesAllowPatterns: true when no allow pattern is set or one matches
MatchesAllowPatterns(filename, allow) ==
  IF Len(allow) = 0 THEN TRUE
  ELSE IF \E i \in DOMAIN allow : MatchString(allow[i], filename) THEN TRUE
  ELSE FALSE

\* MatchesIgnorePatterns: true when an ignore pattern matches
MatchesIgnorePatterns(filename, ignore) ==
  IF Len(ignore) = 0 THEN FALSE
  ELSE IF \E i \in DOMAIN ignore : MatchString(ignore[i], filename) THEN TRUE
  ELSE FALSE

\* the value of MAX_EVENT_AGE_SECONDS in the environment: unset, not an
\* integer, or an integer
EnvUnset == [set |-> FALSE, int |-> FALSE, n |-> 0]
EnvText == [set |-> TRUE, int |-> FALSE, n |-> 0]
EnvInt(n) == [set |-> TRUE, int |-> TRUE, n |-> n]

\* initEventAgeConfig with the minimum enforced for positive values only
initEventAgeConfigPositive(env) ==
  IF ~env.set THEN EVENT_MAX_AGE_SECONDS
  ELSE IF ~env.int THEN EVENT_MAX_AGE_SECONDS
  ELSE IF env.n > 0 /\ env.n < MIN_EVENT_AGE_SECONDS THEN MIN_EVENT_AGE_SECONDS
  ELSE env.n

\* the EVENT_MAX_AGE_SECONDS initEventAgeConfig leaves behind
initEventAgeConfig(env) ==
  IF ~env.set THEN EVENT_MAX_AGE_SECONDS
  ELSE IF ~env.int THEN EVENT_MAX_AGE_SECONDS
  ELSE IF env.n # 0 /\ env.n < MIN_EVENT_AGE_SECONDS THEN MIN_EVENT_AGE_SECONDS
  ELSE env.n

\* isEventTooOld without the test that 0 disables the check
isEventTooOldNoDisable(age, maxAge) == age > maxAge

\* age = time.Since(eventTime), in seconds
isEventTooOld(age, maxAge) == IF maxAge = 0 THEN FALSE ELSE age > maxAge

\* the configuration of the deployment: the pattern sets of InitFilePatterns
\* and the maximum event age left by initEventAgeConfig
Config(allow, ignore, maxAge) == [allow |-> allow, ignore |-> ignore, maxAge |-> maxAge]

DefaultConfig == Config(AllowPatterns, IgnorePatterns, initEventAgeConfig(EnvUnset))

(***************************************************************************)
(* The events the model delivers.                                          *)
(***************************************************************************)
KvContent(lines) == [kind |-> "kv", lines |-> lines, meta |-> <<>>, columns |-> <<>>,
                     rows |-> <<>>, shape |-> "ok"]
CsvContent(meta, columns, rows) ==
  [kind |-> "csv", lines |-> <<>>, meta |-> meta, columns |-> columns, rows |-> rows,
   shape |-> "ok"]

\* timed: the event carries a time (!ce.Time().IsZero()); age: time.Since of it
Event(name, content) ==
  [named |-> TRUE, timed |-> TRUE, age |-> 60, name |-> name, content |-> content]

BariaDirs == {"HoSongRay_KenhSongRay"}
BariaFull == KvContent(<<Line("tab", 2, "MNK", Num(12)), Line("tab", 2, "Domocong", Num(3))>>)
BariaPart == KvContent(<<Line("tab", 2, "MNK", Num(13)), Line("tab", 2, "foo", Num(9))>>)
BariaBad == KvContent(<<Line("tab", 2, "MNK", NotNum), Line("space", 2, "Domocong", Num(3))>>)

BariaEvents ==
  { Event(FileName(BariaDirs, <<Text(1), Compact(20, 0, 9)>>, "txt"), BariaFull),
    Event(FileName(BariaDirs, <<Text(1), Compact(20, 0, 30)>>, "txt"), BariaPart),
    Event(FileName(BariaDirs, <<Text(1), Compact(20, 1, 0)>>, "txt"), BariaBad),
    Event(FileName(BariaDirs, <<Compact(20, 0, 9)>>, "txt"), BariaFull),
    Event(FileName(BariaDirs, <<Text(1), Compact(20, 60, 0)>>, "txt"), BariaFull) }

AmChuaFull ==
  KvContent(<<Line("tab", 2, "rain_1", Num(5)), Line("space", 2, "waterup", Num(7)),
              Line("tab", 1, "drain_1", NotNum)>>)
AmChuaBad ==
  KvContent(<<Line("tab", 2, "rain_1", Num(5)), Line("tab", 2, "waterup", NotNum)>>)

AmChuaEvents ==
  { Event(FileName({AmChuaMarker}, <<Compact(20, 0, 9)>>, "txt"), AmChuaFull),
    Event(FileName({AmChuaMarker}, <<Compact(20, 0, 9)>>, "txt"), AmChuaBad),
    Event(FileName({AmChuaMarker}, <<Text(1), Compact(20, 0, 9)>>, "txt"), AmChuaFull) }

\* rows of the tabular files: a timestamp, the record number and one value
MaxRows == 4
CsvColumns == <<"TIMESTAMP", "RECORD", "water_up">>
CsvRow(h, m, s) == <<TimeCell(h, m, s), NumCell(1), NumCell(4)>>
CsvRows == { CsvRow(20, 0, 0), CsvRow(20, 1, 9), CsvRow(20, 2, 0), CsvRow(20, 3, 0) }

SeqsUpTo(S, n) == UNION { [1..k -> S] : k \in 0..n }

KnownMeta == <<"TOA5", "T1", "CR300", "19531">>
CsvEvent(meta, rows) ==
  Event(FileName({}, <<Text(4)>>, "csv"), CsvContent(meta, CsvColumns, rows))

CsvOddEvents ==
  { CsvEvent(<<"TOA5", "T1", "CR300", "00000">>, <<CsvRow(20, 0, 0)>>),
    CsvEvent(<<"TOA5", "T1", "CR300">>, <<CsvRow(20, 0, 0)>>),
    CsvEvent(KnownMeta, <<<<TextCell, NumCell(1)>>, <<TimeCell(20, 0, 0), TextCell>>,
                          <<TimeCell(20, 0, 0)>>>>) }

\* the tabular events of the writer specification: every row sequence
CsvEvents ==
  { CsvEvent(KnownMeta, rows) : rows \in SeqsUpTo(CsvRows, MaxRows) } \cup CsvOddEvents

\* the tabular events that run next to the other families
CsvFewEvents ==
  { CsvEvent(KnownMeta, <<CsvRow(20, 0, 0)>>),
    CsvEvent(KnownMeta, <<CsvRow(20, 2, 0), CsvRow(20, 1, 9), CsvRow(20, 0, 0)>>) }
  \cup CsvOddEvents

SomeEvent == Event(FileName(BariaDirs, <<Text(1), Compact(20, 0, 9)>>, "txt"), BariaFull)

OtherEvents ==
  { [SomeEvent EXCEPT !.age = 90000],
    [SomeEvent EXCEPT !.named = FALSE],
    [SomeEvent EXCEPT !.name.ext = "tmp"],
    [SomeEvent EXCEPT !.name.ext = "log"] }

Events == BariaEvents \cup AmChuaEvents \cup CsvFewEvents \cup OtherEvents

\* tabular contents encoding/csv cannot read, and a file of four lines
CsvShapeEvents ==
  { Event(FileName({}, <<Text(4)>>, "csv"),
          [CsvContent(KnownMeta, CsvColumns, <<CsvRow(20, 0, 0)>>) EXCEPT !.shape = sh]) :
      sh \in {"meta", "columns", "records"} }
  \cup { CsvEvent(KnownMeta, <<>>) }

\* paths that carry the AmChua marker and a BaRia path, two BaRia paths, and
\* a BaRia path in front of tabular content
MixedEvents ==
  { Event(FileName({AmChuaMarker, "HoSongRay_KenhSongRay"}, <<Compact(20, 4, 0)>>, "txt"),
          AmChuaFull),
    Event(FileName({"HoChauPha", "HoSongRay_HaLuu"}, <<Text(1), Compact(20, 5, 0)>>, "txt"),
          BariaFull),
    Event(FileName({"HoSongRay_HaLuu"}, <<Text(4)>>, "csv"),
          CsvContent(KnownMeta, CsvColumns, <<CsvRow(20, 0, 0)>>)) }

\* a BaRia file whose first value is not a number and whose second is
BariaSkip == KvContent(<<Line("tab", 2, "MNK", NotNum), Line("tab", 2, "Domocong", Num(3))>>)

SkipEvents ==
  { Event(FileName(BariaDirs, <<Text(1), Compact(20, 6, 0)>>, "txt"), BariaSkip) }

\* events at, around and far above the age limits, one without a time and
\* an old one without a file name
AgeEvents ==
  { [SomeEvent EXCEPT !.age = a] : a \in {200, 400, 86400, 86401} }
  \cup { [SomeEvent EXCEPT !.age = 90000, !.timed = FALSE],
         [SomeEvent EXCEPT !.age = 90000, !.named = FALSE] }

\* the events of the one-invocation-at-a-time specification
SeqEvents == Events \cup CsvShapeEvents \cup MixedEvents \cup SkipEvents \cup AgeEvents

\* the events of the configuration specification: every extension at a
\* fresh age, every age under an admitted extension, and a malformed name
ConfigEvents ==
  { [SomeEvent EXCEPT !.name.ext = x] : x \in {"txt", "csv", "tmp", "log"} }
  \cup AgeEvents \cup OtherEvents
  \cup { Event(FileName(BariaDirs, <<Compact(20, 0, 9)>>, "txt"), BariaFull) }

\* the configurations of the configuration specification
MaxPatterns == 2
Patterns == { {"txt", "tmp"}, {"csv", "tmp"} }
AgeEnvs == { EnvUnset, EnvText, EnvInt(0), EnvInt(100), EnvInt(600) }
Configs ==
  { Config(allow, ignore, initEventAgeConfig(env)) :
      allow \in SeqsUpTo(Patterns, MaxPatterns),
      ignore \in SeqsUpTo(Patterns, MaxPatterns),
      env \in AgeEnvs }

NoEvent == [named |-> FALSE, timed |-> FALSE, age |-> 0, name |-> FileName({}, <<>>, ""),
            content |-> KvContent(<<>>)]

(***************************************************************************)
(* State.                                                                  *)
(***************************************************************************)
VARIABLES
  store,      \* store[id]: the collection sensor_data_<id>, a set of documents
  clock,      \* wall clock: the number of events delivered so far
  pc,         \* pc[p]: position of invocation p
  event,      \* event[p]: the event invocation p handles
  now,        \* now[p]: time.Now().Unix() taken by the invocation
  idx,        \* idx[p]: AmChua box index / batch offset i of InsertIgnoreDuplicate
  box,        \* box[p]: box _id found by FindBoxByDeviceID
  toInsert,   \* toInsert[p]: records left after the watermark filter
  inserted,   \* inserted[p]: insertedCount / inserted accumulator
  ret,        \* ret[p]: (count, error) returned by ProcessCSVFile
  hret,       \* hret[p]: what helloGCS returned ("none" while running)
  copies,     \* copies[p]: copyToFailedFolder requests of the invocation
  calls,      \* calls[p]: history of the store calls of the invocation
  faults,     \* number of transient store failures so far
  config,     \* GlobalFilePattern and EVENT_MAX_AGE_SECONDS as loaded at start
  family,     \* family[p]: the processor ProcessCSVFile handed the file to
  atStart,    \* atStart[p]: the destination boxes of a BaRia or AmChua file that
              \* held a record at the file's timestamp when the invocation began
  copyErr     \* copyErr[p]: what copyToFailedFolder returned ("none": not called)

vars == <<store, clock, pc, event, now, idx, box, toInsert, inserted, ret, hret,
          copies, calls, faults, config, family, atStart, copyErr>>

NoRet == [count |-> 0, err |-> "none"]

InitWith(cfg) ==
  /\ config = cfg
  /\ family = [p \in Procs |-> "none"]
  /\ atStart = [p \in Procs |-> {}]
  /\ copyErr = [p \in Procs |-> "none"]
  /\ store = [id \in BoxIds |-> {}]
  /\ clock = 0
  /\ pc = [p \in Procs |-> "idle"]
  /\ event = [p \in Procs |-> NoEvent]
  /\ now = [p \in Procs |-> 0]
  /\ idx = [p \in Procs |-> 0]
  /\ box = [p \in Procs |-> ""]
  /\ toInsert = [p \in Procs |-> <<>>]
  /\ inserted = [p \in Procs |-> 0]
  /\ ret = [p \in Procs |-> NoRet]
  /\ hret = [p \in Procs |-> "none"]
  /\ copies = [p \in Procs |-> 0]
  /\ calls = [p \in Procs |-> <<>>]
  /\ faults = 0

Init == InitWith(DefaultConfig)

\* the outcomes of a store call: it reaches the store, or (while the fault
\* budget lasts) fails with a transient error
Downs == IF faults < MaxFaults THEN BOOLEAN ELSE {FALSE}
Fault(down) == faults' = IF down THEN faults + 1 ELSE faults

\* one entry of calls[p]: the operation, the collection, the documents
\* handed over, whether the store failed, and the keys the collection held before
Call(op, id, docs, down, before) ==
  [op |-> op, col |-> id, docs |-> docs, down |-> down, before |-> Keys(before)]

\* ProcessCSVFile lines 325-335: the processor the file is handed to
Classify(filename) ==
  IF IsAmChuaFile(filename) THEN "AmChua"
  ELSE IF IsBariaFile(filename) THEN "Baria"
  ELSE "CSV"

(***************************************************************************)
(* What an invocation derives from its event alone.                        *)
(***************************************************************************)
BariaBox(e) == BoxesBR[MatchBariaBox(e.name)]

BariaDoc(e, t) ==
  BuildDocument(ParseBariaTimestampFromFilename(e.name).ts, t, BariaBox(e).Metrics,
                BariaValueMap(EmptyMap, e.content.lines))

AmChuaDoc(e, t, i) ==
  BuildDocument(parseFilenameForTimestamp(e.name).ts, t, AmChuaBoxes[i].Metrics,
                AmChuaValueMap(EmptyMap, e.content.lines).valueMap)

CsvRecords(e) == ExtractData(e.content).records

\* the destination boxes of a BaRia or AmChua file whose collection holds a
\* record at the file's timestamp
HeldAtTimestamp(e) ==
  IF IsAmChuaFile(e.name)
  THEN {AmChuaBoxes[i].ID : i \in {j \in DOMAIN AmChuaBoxes :
          parseFilenameForTimestamp(e.name).ts \in Keys(store[AmChuaBoxes[j].ID])}}
  ELSE IF IsBariaFile(e.name)
  THEN {id \in {BariaBox(e).ID} :
          ParseBariaTimestampFromFilename(e.name).ts \in Keys(store[id])}
  ELSE {}

(***************************************************************************)
(* Actions.                                                                *)
(***************************************************************************)
\* helloGCS returns nil after a successful ProcessCSVFile
Succeed(p, r) ==
  /\ ret' = [ret EXCEPT ![p] = r]
  /\ hret' = [hret EXCEPT ![p] = "nil"]
  /\ pc' = [pc EXCEPT ![p] = "done"]

\* helloGCS handing the error of copyToFailedFolder on to its caller
HandlerResultCopy(err, cerr) == cerr

\* ProcessCSVFile returned an error: helloGCS goes on to copyToFailedFolder
Fail(p, r) ==
  /\ ret' = [ret EXCEPT ![p] = r]
  /\ hret' = hret
  /\ pc' = [pc EXCEPT ![p] = "fail"]

\* helloGCS up to the call of ProcessCSVFile
helloGCS(p, E) ==
  /\ pc[p] = "idle"
  /\ clock < MaxDeliveries
  /\ \E e \in E :
       /\ event' = [event EXCEPT ![p] = e]
       /\ clock' = clock + 1
       /\ IF e.timed /\ isEventTooOld(e.age, config.maxAge)
          THEN /\ hret' = [hret EXCEPT ![p] = "nil"]
               /\ pc' = [pc EXCEPT ![p] = "done"]
          ELSE IF ~e.named
          THEN /\ hret' = [hret EXCEPT ![p] = "error"]
               /\ pc' = [pc EXCEPT ![p] = "done"]
          ELSE IF ~ShouldProcessFile(e.name, config.allow, config.ignore)
          THEN /\ hret' = [hret EXCEPT ![p] = "nil"]
               /\ pc' = [pc EXCEPT ![p] = "done"]
          ELSE /\ hret' = hret
               /\ pc' = [pc EXCEPT ![p] = "read"]
       /\ atStart' = [atStart EXCEPT ![p] =
                         IF e.named THEN HeldAtTimestamp(e) ELSE {}]
  /\ UNCHANGED <<store, now, idx, box, toInsert, inserted, ret, copies, calls, faults, config, family, copyErr>>

\* ProcessCSVFile up to the first store call: object read, classification,
\* timestamp extraction and content parsing
ProcessCSVFile(p) ==
  /\ pc[p] = "read"
  /\ now' = [now EXCEPT ![p] = clock]
  /\ \E readOk \in BOOLEAN :
       LET e == event[p] IN
       /\ family' = [family EXCEPT ![p] = IF readOk THEN Classify(e.name) ELSE "none"]
       /\ IF ~readOk THEN Fail(p, [count |-> 0, err |-> "failed to open GCS file"]) /\ idx' = idx
          ELSE IF Classify(e.name) = "AmChua"
          THEN IF parseFilenameForTimestamp(e.name).err # "nil"
               THEN Fail(p, [count |-> 0, err |-> parseFilenameForTimestamp(e.name).err])
                    /\ idx' = idx
               ELSE IF AmChuaValueMap(EmptyMap, e.content.lines).abort
               THEN Succeed(p, [count |-> 0, err |-> "nil"]) /\ idx' = idx
               ELSE /\ pc' = [pc EXCEPT ![p] = "amchua"]
                    /\ idx' = [idx EXCEPT ![p] = 1]
                    /\ UNCHANGED <<ret, hret>>
          ELSE IF Classify(e.name) = "Baria"
          THEN IF ParseBariaTimestampFromFilename(e.name).err # "nil"
               THEN Fail(p, [count |-> 0, err |-> ParseBariaTimestampFromFilename(e.name).err])
                    /\ idx' = idx
               ELSE /\ pc' = [pc EXCEPT ![p] = "baria"]
                    /\ UNCHANGED <<ret, hret, idx>>
          ELSE IF ExtractData(e.content).err # "nil"
               THEN Fail(p, [count |-> 0, err |-> ExtractData(e.content).err]) /\ idx' = idx
               ELSE /\ pc' = [pc EXCEPT ![p] = "findbox"]
                    /\ UNCHANGED <<ret, hret, idx>>
  /\ UNCHANGED <<store, clock, event, box, toInsert, inserted, copies, calls, faults, config, atStart, copyErr>>

\* ProcessBariaFile step 5: InsertOne and the return
BariaInsertOne(p) ==
  /\ pc[p] = "baria"
  /\ \E down \in Downs :
       /\ Fault(down)
       /\ LET id == BariaBox(event[p]).ID
              doc == BariaDoc(event[p], now[p])
              r == InsertOne(store[id], doc, down)
              res == BariaInsertResult(r.err)
          IN  /\ store' = [store EXCEPT ![id] = r.col]
              /\ calls' = [calls EXCEPT ![p] =
                             Append(@, Call("InsertOne", id, <<doc>>, down, store[id]))]
              /\ inserted' = [inserted EXCEPT ![p] = res.count]
              /\ IF res.err # "nil" THEN Fail(p, res) ELSE Succeed(p, res)
  /\ UNCHANGED <<clock, event, now, idx, box, toInsert, copies, config, family, atStart, copyErr>>

\* one iteration of the loop over AmChuaBoxes in ProcessAmChuaFile
AmChuaInsertOne(p) ==
  /\ pc[p] = "amchua"
  /\ \E down \in Downs :
       /\ Fault(down)
       /\ LET i == idx[p]
              id == AmChuaBoxes[i].ID
              doc == AmChuaDoc(event[p], now[p], i)
              r == InsertOne(store[id], doc, down)
              n == AmChuaInsertCount(inserted[p], r.err)
          IN  /\ store' = [store EXCEPT ![id] = r.col]
              /\ calls' = [calls EXCEPT ![p] =
                             Append(@, Call("InsertOne", id, <<doc>>, down, store[id]))]
              /\ inserted' = [inserted EXCEPT ![p] = n]
              /\ IF i = Len(AmChuaBoxes)
                 THEN Succeed(p, [count |-> n, err |-> "nil"]) /\ idx' = idx
                 ELSE /\ idx' = [idx EXCEPT ![p] = i + 1]
                      /\ UNCHANGED <<pc, ret, hret>>
  /\ UNCHANGED <<clock, event, now, box, toInsert, copies, config, family, atStart, copyErr>>

\* ProcessCSVFile: FindBoxByDeviceID; any error is logged and (0, nil) returned
FindBox(p) ==
  /\ pc[p] = "findbox"
  /\ \E down \in Downs :
       /\ Fault(down)
       /\ LET r == FindBoxByDeviceID(ExtractData(event[p].content).device_id, down)
          IN  /\ calls' = [calls EXCEPT ![p] =
                             Append(@, [op |-> "FindOne", col |-> "box", docs |-> <<>>,
                                        down |-> down, before |-> {}])]
              /\ IF r.err # "nil"
                 THEN /\ IF FindBoxResult(r.err).err # "nil"
                         THEN Fail(p, FindBoxResult(r.err))
                         ELSE Succeed(p, FindBoxResult(r.err))
                      /\ box' = box
                 ELSE /\ box' = [box EXCEPT ![p] = r.id]
                      /\ pc' = [pc EXCEPT ![p] = "latest"]
                      /\ UNCHANGED <<ret, hret>>
  /\ UNCHANGED <<store, clock, event, now, idx, toInsert, inserted, copies, config, family, atStart, copyErr>>

\* InsertSensorRecords lines 185-209: GetLatestRecord and the watermark filter
GetLatest(p) ==
  /\ pc[p] = "latest"
  /\ \E down \in Downs :
       /\ Fault(down)
       /\ LET r == GetLatestRecord(store[box[p]], down)
              sel == SelectToInsert(r, CsvRecords(event[p]))
          IN  /\ calls' = [calls EXCEPT ![p] =
                             Append(@, Call("FindOne", box[p], <<>>, down, store[box[p]]))]
              /\ IF r.err # "nil"
                 THEN Fail(p, [count |-> 0, err |-> r.err]) /\ UNCHANGED <<toInsert, idx>>
                 ELSE /\ toInsert' = [toInsert EXCEPT ![p] = sel]
                      /\ idx' = [idx EXCEPT ![p] = 0]
                      /\ IF Len(sel) = 0
                         THEN Succeed(p, [count |-> 0, err |-> "nil"])
                         ELSE /\ pc' = [pc EXCEPT ![p] = "batch"]
                              /\ UNCHANGED <<ret, hret>>
  /\ UNCHANGED <<store, clock, event, now, box, inserted, copies, config, family, atStart, copyErr>>

\* one iteration of InsertIgnoreDuplicate: InsertBatch(data[i:end])
InsertBatchStep(p) ==
  /\ pc[p] = "batch"
  /\ LET arr == BatchAt(toInsert[p], idx[p]) IN
     \E down \in Downs :
     \E reach \in (IF down THEN 0..Len(arr) ELSE {Len(arr)}) :
       LET r == InsertBatch(store[box[p]], arr, down, reach)
           n == inserted[p] + r.count
           next == idx[p] + BATCH_SIZE
       IN  /\ Fault(down)
           /\ store' = [store EXCEPT ![box[p]] = r.col]
           /\ calls' = [calls EXCEPT ![p] =
                          Append(@, Call("InsertMany", box[p], arr, down, store[box[p]]))]
           /\ IF r.err # "nil"
              THEN Fail(p, [count |-> 0, err |-> r.err]) /\ UNCHANGED <<idx, inserted>>
              ELSE /\ inserted' = [inserted EXCEPT ![p] = n]
                   /\ idx' = [idx EXCEPT ![p] = next]
                   /\ IF next < Len(toInsert[p])
                      THEN UNCHANGED <<pc, ret, hret>>
                      ELSE Succeed(p, [count |-> n, err |-> "nil"])
  /\ UNCHANGED <<clock, event, now, box, toInsert, copies, config, family, atStart, copyErr>>

\* what helloGCS returns after ProcessCSVFile failed with err and
\* copyToFailedFolder returned copyErr (lines 447-453): both are only logged
HandlerResult(err, cerr) == "nil"

\* helloGCS error branch: copyToFailedFolder (its own failure is only
\* logged), then return nil
copyToFailedFolder(p) ==
  /\ pc[p] = "fail"
  /\ \E copyOk \in BOOLEAN :
       LET e == IF copyOk THEN "nil" ELSE "failed to copy to load_failed folder"
       IN  /\ copies' = [copies EXCEPT ![p] = @ + 1]
           /\ copyErr' = [copyErr EXCEPT ![p] = e]
           /\ hret' = [hret EXCEPT ![p] = HandlerResult(ret[p].err, e)]
           /\ pc' = [pc EXCEPT ![p] = "done"]
  /\ UNCHANGED <<store, clock, event, now, idx, box, toInsert, inserted, ret, calls, faults, config, family, atStart>>

\* the invocation is over; the execution context takes the next event
Return(p) ==
  /\ pc[p] = "done"
  /\ pc' = [pc EXCEPT ![p] = "idle"]
  /\ event' = [event EXCEPT ![p] = NoEvent]
  /\ now' = [now EXCEPT ![p] = 0]
  /\ idx' = [idx EXCEPT ![p] = 0]
  /\ box' = [box EXCEPT ![p] = ""]
  /\ toInsert' = [toInsert EXCEPT ![p] = <<>>]
  /\ inserted' = [inserted EXCEPT ![p] = 0]
  /\ ret' = [ret EXCEPT ![p] = NoRet]
  /\ hret' = [hret EXCEPT ![p] = "none"]
  /\ copies' = [copies EXCEPT ![p] = 0]
  /\ calls' = [calls EXCEPT ![p] = <<>>]
  /\ family' = [family EXCEPT ![p] = "none"]
  /\ atStart' = [atStart EXCEPT ![p] = {}]
  /\ copyErr' = [copyErr EXCEPT ![p] = "none"]
  /\ UNCHANGED <<store, clock, faults, config>>

Next ==
  \E p \in Procs :
    \/ helloGCS(p, Events)
    \/ ProcessCSVFile(p)
    \/ BariaInsertOne(p)
    \/ AmChuaInsertOne(p)
    \/ FindBox(p)
    \/ GetLatest(p)
    \/ InsertBatchStep(p)
    \/ copyToFailedFolder(p)
    \/ Return(p)

Spec == Init /\ [][Next]_vars

\* the tabular family alone, one invocation at a time, every row sequence
NextCsv ==
  \/ helloGCS("p1", CsvEvents)
  \/ ProcessCSVFile("p1")
  \/ FindBox("p1")
  \/ GetLatest("p1")
  \/ InsertBatchStep("p1")
  \/ copyToFailedFolder("p1")
  \/ Return("p1")

SpecCsv == Init /\ [][NextCsv]_vars

\* every family, one invocation at a time
NextSeq ==
  \/ helloGCS("p1", SeqEvents)
  \/ ProcessCSVFile("p1")
  \/ BariaInsertOne("p1")
  \/ AmChuaInsertOne("p1")
  \/ FindBox("p1")
  \/ GetLatest("p1")
  \/ InsertBatchStep("p1")
  \/ copyToFailedFolder("p1")
  \/ Return("p1")

SpecSeq == Init /\ [][NextSeq]_vars

\* one invocation at a time under every configuration of the pattern sets
\* and of MAX_EVENT_AGE_SECONDS
InitConfigs == \E cfg \in Configs : InitWith(cfg)

NextConfig ==
  \/ helloGCS("p1", ConfigEvents)
  \/ ProcessCSVFile("p1")
  \/ BariaInsertOne("p1")
  \/ copyToFailedFolder("p1")
  \/ Return("p1")

SpecConfig == InitConfigs /\ [][NextConfig]_vars

\* the file names of the timestamp specification: every token over clock
\* fields at and beyond their limits, well placed and misplaced in the name
ClockTokens ==
  { Compact(h, m, s) : h \in {0, 6, 23, 24}, m \in {0, 59, 60}, s \in {0, 59, 60} }

NameEvents ==
  { Event(FileName(BariaDirs, <<Text(1), t>>, "txt"), BariaFull) : t \in ClockTokens }
  \cup { Event(FileName({AmChuaMarker}, <<t>>, "txt"), AmChuaFull) : t \in ClockTokens }
  \cup { Event(FileName(BariaDirs, base, "txt"), BariaFull) :
           base \in { <<Compact(20, 0, 9)>>, <<Text(1), Text(14)>>,
                      <<Compact(20, 0, 9), Text(1)>>, <<Text(1), Text(1), Compact(6, 59, 59)>> } }
  \cup { Event(FileName({AmChuaMarker}, base, "txt"), AmChuaFull) :
           base \in { <<Text(14)>>, <<Text(13)>>, <<Text(6), Text(7)>>,
                      <<Text(1), Compact(20, 0, 9)>> } }

\* the single-record families over every file name, one invocation at a time
NextName ==
  \/ helloGCS("p1", NameEvents)
  \/ ProcessCSVFile("p1")
  \/ BariaInsertOne("p1")
  \/ AmChuaInsertOne("p1")
  \/ copyToFailedFolder("p1")
  \/ Return("p1")

SpecName == Init /\ [][NextName]_vars

\* the tabular files of the parser specification: every sequence of up to
\* MaxHeaders value headers over one full row, and every sequence of up to
\* MaxParseRows rows over a header of two value columns and of one
MaxHeaders == 2
MaxParseRows == 2

CsvFile(columns, rows) ==
  Event(FileName({}, <<Text(4)>>, "csv"), CsvContent(KnownMeta, columns, rows))

\* aliases, a header that is no alias, an alias in other letter case, a
\* code, and the two reserved keys
HeaderNames == {"water_up", "drain_1", "foo_bar", "Water_Up", "WAU", "_id", "n"}

FullRow == <<TimeCell(20, 0, 0), NumCell(1), NumCell(4), NumCell(5)>>

HeaderEvents ==
  { CsvFile(<<"TIMESTAMP", "RECORD">> \o hs, <<FullRow>>) :
      hs \in SeqsUpTo(HeaderNames, MaxHeaders) }

\* rows: complete, with a text in a value column, longer than the header,
\* without value columns, of one column, with a text, an impossible hour or
\* another layout in the time column, and with a text in the RECORD column
RowKinds ==
  { FullRow,
    <<TimeCell(20, 1, 9), NumCell(2), TextCell, NumCell(5)>>,
    <<TimeCell(20, 2, 0), NumCell(3), NumCell(4), NumCell(5), NumCell(6)>>,
    <<TimeCell(20, 2, 0), NumCell(3)>>,
    <<TimeCell(20, 3, 0)>>,
    <<TextCell, NumCell(1), NumCell(4)>>,
    <<TimeCell(24, 0, 0), NumCell(1), NumCell(4)>>,
    <<[s |-> Compact(20, 0, 0), num |-> NotNum], NumCell(1), NumCell(4)>>,
    <<TimeCell(20, 0, 0), TextCell, NumCell(4)>> }

RowEvents ==
  { CsvFile(columns, rows) :
      columns \in { <<"TIMESTAMP", "RECORD", "water_up", "foo_bar">>,
                    <<"TIMESTAMP", "RECORD", "water_up">> },
      rows \in SeqsUpTo(RowKinds, MaxParseRows) }

ParseEvents == HeaderEvents \cup RowEvents

\* the tabular family over every header and row shape, one invocation at a time
NextParse ==
  \/ helloGCS("p1", ParseEvents)
  \/ ProcessCSVFile("p1")
  \/ FindBox("p1")
  \/ GetLatest("p1")
  \/ InsertBatchStep("p1")
  \/ copyToFailedFolder("p1")
  \/ Return("p1")

SpecParse == Init /\ [][NextParse]_vars

\* the platform delivers the event of a finished invocation again (at least
\* once delivery): the per-invocation state starts afresh and helloGCS runs
\* on the same event
Redeliver(p) ==
  /\ pc[p] = "done"
  /\ clock < MaxDeliveries
  /\ LET e == event[p] IN
       /\ clock' = clock + 1
       /\ IF e.timed /\ isEventTooOld(e.age, config.maxAge)
          THEN /\ hret' = [hret EXCEPT ![p] = "nil"]
               /\ pc' = [pc EXCEPT ![p] = "done"]
          ELSE IF ~e.named
          THEN /\ hret' = [hret EXCEPT ![p] = "error"]
               /\ pc' = [pc EXCEPT ![p] = "done"]
          ELSE IF ~ShouldProcessFile(e.name, config.allow, config.ignore)
          THEN /\ hret' = [hret EXCEPT ![p] = "nil"]
               /\ pc' = [pc EXCEPT ![p] = "done"]
          ELSE /\ hret' = [hret EXCEPT ![p] = "none"]
               /\ pc' = [pc EXCEPT ![p] = "read"]
       /\ atStart' = [atStart EXCEPT ![p] =
                         IF e.named THEN HeldAtTimestamp(e) ELSE {}]
  /\ now' = [now EXCEPT ![p] = 0]
  /\ idx' = [idx EXCEPT ![p] = 0]
  /\ box' = [box EXCEPT ![p] = ""]
  /\ toInsert' = [toInsert EXCEPT ![p] = <<>>]
  /\ inserted' = [inserted EXCEPT ![p] = 0]
  /\ ret' = [ret EXCEPT ![p] = NoRet]
  /\ copies' = [copies EXCEPT ![p] = 0]
  /\ copyErr' = [copyErr EXCEPT ![p] = "none"]
  /\ calls' = [calls EXCEPT ![p] = <<>>]
  /\ family' = [family EXCEPT ![p] = "none"]
  /\ UNCHANGED <<store, event, faults, config>>

\* one tabular file, delivered again and again
NextRedeliver ==
  \/ helloGCS("p1", CsvEvents)
  \/ ProcessCSVFile("p1")
  \/ FindBox("p1")
  \/ GetLatest("p1")
  \/ InsertBatchStep("p1")
  \/ copyToFailedFolder("p1")
  \/ Redeliver("p1")

SpecRedeliver == Init /\ [][NextRedeliver]_vars

\* the values of MAX_EVENT_AGE_SECONDS of the event age specification:
\* unset, a text, and integers below, at and above zero and the minimum
AgeValues == {-86400, -300, -1, 0, 1, 100, 299, 300, 301, 600, 86400, 90000}
AllAgeEnvs == {EnvUnset, EnvText} \cup {EnvInt(n) : n \in AgeValues}

\* the start of an execution context whose environment is remembered
InitAge ==
  \E env \in AllAgeEnvs :
    InitWith(Config(AllowPatterns, IgnorePatterns, initEventAgeConfig(env))
               @@ [env |-> env])

NextAge ==
  \/ helloGCS("p1", AgeEvents \cup {[SomeEvent EXCEPT !.age = a] : a \in {300, 301, 89999}})
  \/ ProcessCSVFile("p1")
  \/ BariaInsertOne("p1")
  \/ copyToFailedFolder("p1")
  \/ Return("p1")

SpecAge == InitAge /\ [][NextAge]_vars

(***************************************************************************)
(* Properties.                                                             *)
(***************************************************************************)
\* the InsertOne calls of invocation p
InsertCalls(p) == {i \in DOMAIN calls[p] : calls[p][i].op = "InsertOne"}

\* an InsertOne that reached the store and found its key stored / not stored
IsDupCall(c) == c.op = "InsertOne" /\ ~c.down /\ c.docs[1]["_id"] \in c.before
IsFreshCall(c) == c.op = "InsertOne" /\ ~c.down /\ c.docs[1]["_id"] \notin c.before

\* C1: every box collection holds at most one record per _id, in every
\* reachable state, whatever families run and however they interleave.
C1_OneRecordPerTimestamp ==
  \A id \in BoxIds : \A d1, d2 \in store[id] : d1["_id"] = d2["_id"] => d1 = d2

\* a document was handed to the store while its key was already stored
C1_Witness ==
  \E p \in Procs : \E i \in DOMAIN calls[p] :
    /\ calls[p][i].op \in {"InsertOne", "InsertMany"}
    /\ ~calls[p][i].down
    /\ \E j \in DOMAIN calls[p][i].docs : calls[p][i].docs[j]["_id"] \in calls[p][i].before
    /\ store[calls[p][i].col] # {}

\* C2: a single-record insert whose (box, timestamp) document is already
\* stored leaves exactly one record for that timestamp, is not counted, and
\* the file ends without an error.
C2_IdempotentInsert ==
  \A p \in Procs : \A i \in InsertCalls(p) :
    IsDupCall(calls[p][i]) =>
      /\ Cardinality({d \in store[calls[p][i].col] :
                        d["_id"] = calls[p][i].docs[1]["_id"]}) = 1
      /\ inserted[p] = Cardinality({j \in InsertCalls(p) : IsFreshCall(calls[p][j])})
      /\ pc[p] # "fail"
      /\ pc[p] = "done" => ret[p] = [count |-> inserted[p], err |-> "nil"]

\* a finished invocation whose insert met an already stored key
C2_Witness ==
  \E p \in Procs :
    /\ pc[p] = "done"
    /\ \E i \in InsertCalls(p) : IsDupCall(calls[p][i])
    /\ ret[p].count = 0

\* C3: a stored record is never updated or deleted: every step keeps every
\* stored record, and the record under its key stays the identical record.
C3_WriteOnce ==
  [][\A id \in BoxIds : \A d \in store[id] :
       /\ d \in store'[id]
       /\ \A e \in store'[id] : e["_id"] = d["_id"] => e = d]_vars

\* a file for the same box and minute with other values met the stored record
C3_Witness ==
  \E p \in Procs : \E i \in InsertCalls(p) :
    /\ IsDupCall(calls[p][i])
    /\ \E d \in store[calls[p][i].col] :
         /\ d["_id"] = calls[p][i].docs[1]["_id"]
         /\ "WAU" \in DOMAIN d
         /\ d["WAU"] # calls[p][i].docs[1]["WAU"]

\* the tabular invocation p has read the watermark of its collection
Watermarked(p) ==
  /\ Len(calls[p]) >= 2
  /\ calls[p][2].op = "FindOne"
  /\ ~calls[p][2].down

\* the candidate records whose key is above every key the collection held
AboveWatermark(p) ==
  SelectSeq(CsvRecords(event[p]),
            LAMBDA r : \A k \in calls[p][2].before : r["_id"] > k)

\* the records handed to InsertMany so far, in order
RECURSIVE SubmittedFrom(_, _)
SubmittedFrom(p, i) ==
  IF i > Len(calls[p]) THEN <<>>
  ELSE (IF calls[p][i].op = "InsertMany" THEN calls[p][i].docs ELSE <<>>)
       \o SubmittedFrom(p, i + 1)

Submitted(p) == SubmittedFrom(p, 1)

\* C4 (as claimed): after each tabular delivery the stored keys are those a
\* writer without the watermark filter would have stored: the keys held
\* before together with every candidate key.
C4_FilterIsOnlyOptimization ==
  \A p \in Procs :
    (pc[p] = "done" /\ faults = 0 /\ Watermarked(p)) =>
      Keys(store[box[p]]) =
        calls[p][2].before \cup {CsvRecords(event[p])[i]["_id"] :
                                   i \in DOMAIN CsvRecords(event[p])}

\* C5: the tabular writer submits exactly the candidates whose key is
\* strictly greater than the maximum key of the collection, in order, and
\* every candidate when the collection is empty.
C5_WatermarkFilter ==
  \A p \in Procs :
    Watermarked(p) =>
      /\ pc[p] \in {"batch", "done", "fail"}
      /\ toInsert[p] = AboveWatermark(p)
      /\ Len(Submitted(p)) <= Len(AboveWatermark(p))
      /\ Submitted(p) = SubSeq(AboveWatermark(p), 1, Len(Submitted(p)))
      /\ (pc[p] = "done" /\ ret[p].err = "nil" => Submitted(p) = AboveWatermark(p))

\* a finished delivery with candidates below, at and (two) above the watermark
C5_Witness ==
  \E p \in Procs :
    /\ pc[p] = "done"
    /\ ret[p].err = "nil"
    /\ Watermarked(p)
    /\ LET ks == {CsvRecords(event[p])[i]["_id"] : i \in DOMAIN CsvRecords(event[p])}
       IN  \E T \in calls[p][2].before :
             /\ \A k \in calls[p][2].before : k <= T
             /\ T \in ks
             /\ \E k \in ks : k < T
             /\ Cardinality({k \in ks : k > T}) = 2
             /\ Len(Submitted(p)) = 2
             /\ \A i \in 1..2 : Submitted(p)[i] \in store[box[p]]

\* every document handed to the store by any family
SubmittedDocs ==
  UNION { UNION { {calls[p][i].docs[j] : j \in DOMAIN calls[p][i].docs} :
                  i \in DOMAIN calls[p] } : p \in Procs }

\* C6 (as claimed): every _id handed to the store, by any family, is the
\* start of a minute: a multiple of 60 under the whole-hour offset.
C6_MinuteTruncated == \A d \in SubmittedDocs : d["_id"] % 60 = 0

\* C7 (as claimed): every record handed to the store, by any family, has
\* both reserved keys _id and c.
C7_ReservedKeys == \A d \in SubmittedDocs : {"_id", "c"} \subseteq DOMAIN d

\* the registry entry behind a single-record collection
MetricsOf(id) ==
  IF \E k \in DOMAIN BoxesBR : BoxesBR[k].ID = id
  THEN BoxesBR[CHOOSE k \in DOMAIN BoxesBR : BoxesBR[k].ID = id].Metrics
  ELSE AmChuaBoxes[CHOOSE k \in DOMAIN AmChuaBoxes : AmChuaBoxes[k].ID = id].Metrics

\* the key-value map the family's parser made of the content
ParsedMap(e) ==
  IF IsAmChuaFile(e.name) THEN AmChuaValueMap(EmptyMap, e.content.lines).valueMap
  ELSE BariaValueMap(EmptyMap, e.content.lines)

\* C8: the document of a single-record family has exactly the keys _id, c
\* and one key per configured metric code; a metric whose name is in the
\* parsed map carries its value, any other metric carries 0, and no other
\* key of the parsed map appears.
C8_ZeroFill ==
  \A p \in Procs : \A i \in InsertCalls(p) :
    LET doc == calls[p][i].docs[1]
        ms == MetricsOf(calls[p][i].col)
        vm == ParsedMap(event[p])
    IN  /\ DOMAIN doc = {"_id", "c"} \cup {ms[k].Code : k \in DOMAIN ms}
        /\ Cardinality(DOMAIN doc) = 2 + Len(ms)
        /\ \A k \in DOMAIN ms :
             doc[ms[k].Code] = IF ms[k].Name \in DOMAIN vm THEN vm[ms[k].Name] ELSE 0
        /\ \A key \in DOMAIN vm :
             key \notin {ms[k].Name : k \in DOMAIN ms} => key \notin DOMAIN doc

\* a document with a parsed metric, a zero-filled metric and a dropped input key
C8_Witness ==
  \E p \in Procs : \E i \in InsertCalls(p) :
    LET doc == calls[p][i].docs[1]
        ms == MetricsOf(calls[p][i].col)
        vm == ParsedMap(event[p])
    IN  /\ \E k \in DOMAIN ms : ms[k].Name \in DOMAIN vm /\ doc[ms[k].Code] = vm[ms[k].Name]
                                /\ vm[ms[k].Name] # 0
        /\ \E k \in DOMAIN ms : ms[k].Name \notin DOMAIN vm /\ doc[ms[k].Code] = 0
        /\ \E key \in DOMAIN vm : key \notin DOMAIN doc

\* C9 (as claimed): when a store call of the invocation failed with a
\* transient error, helloGCS returns an error to the transport.
C9_TransientErrorReachesTransport ==
  \A p \in Procs :
    (pc[p] = "done" /\ \E i \in DOMAIN calls[p] : calls[p][i].down) => hret[p] = "error"

\* C10 (as claimed): at the writer, the file's processing ends with an
\* error exactly when a store call failed with a transient error; a
\* duplicate key alone never ends it with an error.
C10_WriterErrorPolicy ==
  \A p \in Procs :
    (pc[p] \in {"done", "fail"} /\ ret[p].err # "none" /\ Len(calls[p]) > 0) =>
      (ret[p].err # "nil" <=> \E i \in DOMAIN calls[p] : calls[p][i].down)

\* a string of 14 digits that spell a date-time
IsTimestampToken(s) == s.fmt = "compact" /\ s.hh <= 23 /\ s.mm <= 59 /\ s.ss <= 59

\* the name is not <anything>_<YYYYMMDDhhmmss> (BaRia), not <YYYYMMDDhhmmss> (AmChua)
MalformedFilename(fam, filename) ==
  \/ /\ fam = "Baria"
     /\ ~(Len(filename.base) >= 2 /\ IsTimestampToken(filename.base[Len(filename.base)]))
  \/ /\ fam = "AmChua"
     /\ ~(Len(filename.base) = 1 /\ IsTimestampToken(filename.base[1]))

\* tabular content with fewer than five lines, a line group encoding/csv
\* rejects, or a meta row of fewer than four fields
MalformedContent(fam, content) ==
  /\ fam = "CSV"
  /\ \/ 4 + Len(content.rows) < 5
     \/ content.shape # "ok"
     \/ Len(content.meta) < 4

\* C11: a file with a malformed name (BaRia, AmChua) or structurally
\* malformed tabular content ends with an error before any store call, one
\* copy to load_failed is requested, and helloGCS returns nil.
C11_MalformedAborts ==
  \A p \in Procs :
    (\/ MalformedFilename(family[p], event[p].name)
     \/ MalformedContent(family[p], event[p].content)) =>
      /\ calls[p] = <<>>
      /\ pc[p] \in {"fail", "done"}
      /\ ret[p].err \notin {"nil", "none"}
      /\ pc[p] = "fail" => copies[p] = 0 /\ hret[p] = "none"
      /\ pc[p] = "done" => copies[p] = 1 /\ hret[p] = "nil"

\* a tabular file with a three-field meta row has ended, after an earlier
\* delivery wrote to the store
C11_Witness ==
  \E p \in Procs :
    /\ pc[p] = "done"
    /\ MalformedContent(family[p], event[p].content)
    /\ Len(event[p].content.meta) = 3
    /\ copies[p] = 1
    /\ hret[p] = "nil"
    /\ \E id \in BoxIds : store[id] # {}

\* the device identity of the meta row is not registered in the box collection
UnmappedIdentity(fam, content) ==
  /\ fam = "CSV"
  /\ ~MalformedContent(fam, content)
  /\ <<content.meta[3], content.meta[4]>> \notin DOMAIN BoxCollection

\* C12: a tabular file whose device identity has no registered box is a
\* successful no-op: the only store call is the lookup in the box collection,
\* the pipeline returns (0, nil), no copy to load_failed is requested and
\* helloGCS returns nil.
C12_UnmappedIdentityNoOp ==
  \A p \in Procs :
    UnmappedIdentity(family[p], event[p].content) =>
      /\ pc[p] \in {"findbox", "done"}
      /\ \A i \in DOMAIN calls[p] : calls[p][i].op = "FindOne" /\ calls[p][i].col = "box"
      /\ copies[p] = 0
      /\ pc[p] = "done" =>
           /\ Len(calls[p]) = 1
           /\ ret[p] = [count |-> 0, err |-> "nil"]
           /\ hret[p] = "nil"

\* the lookup reached the store, found no box, and the invocation has ended
C12_Witness ==
  \E p \in Procs :
    /\ UnmappedIdentity(family[p], event[p].content)
    /\ pc[p] = "done"
    /\ Len(calls[p]) = 1
    /\ ~calls[p][1].down
    /\ ret[p].count = 0
    /\ hret[p] = "nil"

\* C13 (as claimed): when a stage of a BaRia or AmChua invocation fails (the
\* timestamp extraction, or an insert that meets a store error other than a
\* duplicate key), the file ends with an error and the invocation has
\* written to no box collection.
C13_NoPartialWrites ==
  \A p \in Procs :
    (/\ family[p] \in {"Baria", "AmChua"}
     /\ pc[p] = "done"
     /\ \/ MalformedFilename(family[p], event[p].name)
        \/ \E i \in InsertCalls(p) : calls[p][i].down) =>
      /\ ret[p].err \notin {"nil", "none"}
      /\ \A i \in InsertCalls(p) : ~IsFreshCall(calls[p][i])

\* invocation p has an event that passed the age and name checks of helloGCS
Screened(p) ==
  /\ pc[p] # "idle"
  /\ event[p].named
  /\ ~(event[p].timed /\ isEventTooOld(event[p].age, config.maxAge))

\* helloGCS handed the file of invocation p to ProcessCSVFile
Admitted(p) == pc[p] \notin {"idle", "done"} \/ (pc[p] = "done" /\ ret[p] # NoRet)

Stale(p) ==
  /\ pc[p] # "idle"
  /\ event[p].timed
  /\ config.maxAge # 0
  /\ event[p].age > config.maxAge

\* C15: an event older than the maximum age in force is dropped before any
\* other step: the invocation ends at once with helloGCS returning nil,
\* without the name check, an object read, a store call or a copy to
\* load_failed; with a maximum age of 0 no event is dropped for its age: it
\* is refused or processed by its name and the patterns alone.
C15_StaleEventDiscard ==
  \A p \in Procs :
    /\ Stale(p) =>
         /\ pc[p] = "done"
         /\ hret[p] = "nil"
         /\ ret[p] = NoRet
         /\ family[p] = "none"
         /\ calls[p] = <<>>
         /\ copies[p] = 0
    /\ (pc[p] # "idle" /\ config.maxAge = 0) =>
         /\ ~event[p].named => hret[p] = "error"
         /\ (event[p].named /\ ShouldProcessFile(event[p].name, config.allow, config.ignore))
              => Admitted(p)

\* an event 400 s old was dropped under the enforced minimum of 300 s
C15_Witness ==
  \E p \in Procs :
    /\ Stale(p)
    /\ config.maxAge = MIN_EVENT_AGE_SECONDS
    /\ event[p].age = 400
    /\ ShouldProcessFile(event[p].name, config.allow, config.ignore)
    /\ pc[p] = "done"
    /\ hret[p] = "nil"

\* the positions of BoxesBR whose Path occurs in the path of the file
Hints(filename) == {i \in DOMAIN BoxesBR : BoxesBR[i].Path \in filename.dirs}

\* the collections a family may address, and the store operations it uses
FamilyCollections(fam, filename) ==
  IF fam = "AmChua" THEN {AmChuaBoxes[i].ID : i \in DOMAIN AmChuaBoxes}
  ELSE IF fam = "Baria"
  THEN {BoxesBR[i].ID : i \in {h \in Hints(filename) : \A j \in Hints(filename) : h <= j}}
  ELSE {"box"} \cup {BoxCollection[d] : d \in DOMAIN BoxCollection}

FamilyOps(fam) == IF fam = "CSV" THEN {"FindOne", "InsertMany"} ELSE {"InsertOne"}

\* C16: every file whose object was read is handed to exactly one of the
\* three processors; the tabular processor exactly when the path holds
\* neither the AmChua marker nor a BaRia path; a BaRia file goes to the first
\* box of BoxesBR whose Path occurs in the path; and every store call of the
\* invocation belongs to that one family, also for a path that holds both
\* the AmChua marker and a BaRia path.
C16_Classification ==
  \A p \in Procs :
    /\ (Admitted(p) /\ pc[p] # "read" /\ ret[p].err # "failed to open GCS file")
         => family[p] \in {"AmChua", "Baria", "CSV"}
    /\ family[p] # "none" =>
         /\ family[p] = "CSV" <=>
              (AmChuaMarker \notin event[p].name.dirs /\ Hints(event[p].name) = {})
         /\ family[p] = "Baria" => Hints(event[p].name) # {}
         /\ family[p] = "AmChua" => AmChuaMarker \in event[p].name.dirs
         /\ \A i \in DOMAIN calls[p] :
              /\ calls[p][i].col \in FamilyCollections(family[p], event[p].name)
              /\ calls[p][i].op \in FamilyOps(family[p])
         /\ family[p] = "Baria" => Len(calls[p]) <= 1

\* a file under two BaRia paths was written to the box that comes first in
\* BoxesBR, which is not the box that comes last
C16_Witness ==
  \E p \in Procs :
    /\ family[p] = "Baria"
    /\ Cardinality(Hints(event[p].name)) = 2
    /\ pc[p] = "done"
    /\ Len(calls[p]) = 1
    /\ IsFreshCall(calls[p][1])
    /\ calls[p][1].col = "A3M6KKN6"
    /\ calls[p][1].docs[1] \in store["A3M6KKN6"]

\* invocation p has processed an AmChua file with a well-formed name and only
\* parsable values, and every store call it made reached the store
FanOutDone(p) ==
  /\ family[p] = "AmChua"
  /\ ~MalformedFilename(family[p], event[p].name)
  /\ \A i \in DOMAIN event[p].content.lines :
       event[p].content.lines[i].ntok >= 2 => event[p].content.lines[i].val.ok
  /\ pc[p] = "done"
  /\ \A i \in DOMAIN calls[p] : ~calls[p][i].down

\* every box of AmChuaBoxes holds a record at the timestamp of the file of p
FannedOut(p) ==
  \A i \in DOMAIN AmChuaBoxes :
    parseFilenameForTimestamp(event[p].name).ts \in Keys(store[AmChuaBoxes[i].ID])

\* C17 (as claimed): after such a file every AmChua box holds a record at the
\* file's timestamp, and the returned count is the number of boxes that held
\* no record at that timestamp before the invocation began.
C17_FanOutCountsBoxesEmptyAtStart ==
  \A p \in Procs :
    FanOutDone(p) =>
      /\ FannedOut(p)
      /\ ret[p] = [count |-> Len(AmChuaBoxes) - Cardinality(atStart[p]), err |-> "nil"]

\* C17 (amended): after such a file every AmChua box holds a record at the
\* file's timestamp; the invocation made one insert per box, in registry
\* order; the returned count is the number of boxes that held no record at
\* that timestamp when the insert of the invocation reached them, which is
\* at most the number that held none before the invocation began.
C17_FanOut ==
  \A p \in Procs :
    FanOutDone(p) =>
      /\ FannedOut(p)
      /\ Len(calls[p]) = Len(AmChuaBoxes)
      /\ \A i \in DOMAIN calls[p] :
           /\ calls[p][i].op = "InsertOne"
           /\ calls[p][i].col = AmChuaBoxes[i].ID
           /\ calls[p][i].docs[1]["_id"] = parseFilenameForTimestamp(event[p].name).ts
      /\ ret[p] = [count |-> Cardinality({i \in DOMAIN calls[p] : IsFreshCall(calls[p][i])}),
                   err |-> "nil"]
      /\ ret[p].count <= Len(AmChuaBoxes) - Cardinality(atStart[p])

\* a file met some boxes that already held its timestamp and some that did
\* not, and its count is the number of the latter
C17_Witness ==
  \E p \in Procs :
    /\ FanOutDone(p)
    /\ atStart[p] # {}
    /\ Cardinality(atStart[p]) < Len(AmChuaBoxes)
    /\ ret[p].count = Len(AmChuaBoxes) - Cardinality(atStart[p])
    /\ \E i \in DOMAIN calls[p] : IsDupCall(calls[p][i])
    /\ \E i \in DOMAIN calls[p] : IsFreshCall(calls[p][i])

\* the lines of a key-value file that carry a value: tab-separated with two
\* or more fields (BaRia), two or more whitespace-separated fields (AmChua)
ValueLines(fam, lines) ==
  {i \in DOMAIN lines : lines[i].ntok >= 2 /\ (fam = "Baria" => lines[i].sep = "tab")}

\* the file of a family holds a value line whose value is not a number
HasBadValue(fam, lines) == \E i \in ValueLines(fam, lines) : ~lines[i].val.ok

\* the last value line of a BaRia file that gives metric name a number; 0 for none
LastGoodLine(lines, name) ==
  LET good == {i \in ValueLines("Baria", lines) : lines[i].val.ok /\ lines[i].key = name}
  IN  IF good = {} THEN 0 ELSE CHOOSE i \in good : \A j \in good : j <= i

\* C18: a BaRia file with an unparsable value still reaches its insert, and
\* its document carries, for every metric, the number of the last parsable
\* line of that name (0 when there is none); an AmChua file with an
\* unparsable value ends at once with (0, nil) and without any store call.
C18_ValueParsePolicy ==
  \A p \in Procs :
    LET e == event[p] IN
    /\ (/\ family[p] = "Baria"
        /\ ~MalformedFilename(family[p], e.name)
        /\ HasBadValue(family[p], e.content.lines)) =>
         /\ pc[p] \in {"baria", "done", "fail"}
         /\ pc[p] # "baria" =>
              /\ Len(calls[p]) = 1
              /\ calls[p][1].op = "InsertOne"
              /\ LET doc == calls[p][1].docs[1]
                     ms == MetricsOf(calls[p][1].col)
                 IN  \A k \in DOMAIN ms :
                       doc[ms[k].Code] =
                         IF LastGoodLine(e.content.lines, ms[k].Name) = 0 THEN 0
                         ELSE e.content.lines[LastGoodLine(e.content.lines, ms[k].Name)].val.v
              /\ ~calls[p][1].down =>
                   /\ calls[p][1].docs[1]["_id"] \in Keys(store[calls[p][1].col])
                   /\ ret[p].err = "nil"
    /\ (/\ family[p] = "AmChua"
        /\ ~MalformedFilename(family[p], e.name)
        /\ HasBadValue(family[p], e.content.lines)) =>
         /\ pc[p] = "done"
         /\ calls[p] = <<>>
         /\ ret[p] = [count |-> 0, err |-> "nil"]

\* an AmChua file with an unparsable value has ended without a write, while
\* the store holds the record of a BaRia file whose unparsable MNK line was
\* skipped (WAU = 0) and whose Domocong line was kept (DR1 = 3)
C18_Witness ==
  \E p \in Procs :
    /\ family[p] = "AmChua"
    /\ HasBadValue(family[p], event[p].content.lines)
    /\ pc[p] = "done"
    /\ ret[p].count = 0
    /\ \A i \in DOMAIN AmChuaBoxes : store[AmChuaBoxes[i].ID] = {}
    /\ \E d \in store["S83FIGA0"] : d["WAU"] = 0 /\ d["DR1"] = 3

\* the positions in calls[p] of the InsertMany calls, which follow the box
\* lookup and the watermark read
BatchCalls(p) == {i \in DOMAIN calls[p] : calls[p][i].op = "InsertMany"}

\* the k-th slice of BATCH_SIZE records of a sequence
Slice(data, k) ==
  SubSeq(data, (k - 1) * BATCH_SIZE + 1,
         IF k * BATCH_SIZE < Len(data) THEN k * BATCH_SIZE ELSE Len(data))

\* C19: the records left by the watermark filter are submitted as consecutive
\* batches of at most BATCH_SIZE records, in order, each record in exactly one
\* batch; when a batch fails with a store error other than a duplicate key,
\* the records of the earlier batches stay stored, no later batch is
\* submitted, and the file ends with that error.
C19_BatchingPartialCommit ==
  \A p \in Procs :
    (family[p] = "CSV" /\ Watermarked(p)) =>
      /\ BatchCalls(p) = 3..Len(calls[p])
      /\ \A i \in BatchCalls(p) :
           /\ calls[p][i].docs = Slice(toInsert[p], i - 2)
           /\ Len(calls[p][i].docs) \in 1..BATCH_SIZE
           /\ calls[p][i].down =>
                /\ i = Len(calls[p])
                /\ pc[p] \in {"fail", "done"}
                /\ ret[p] = [count |-> 0, err |-> Unavailable]
                /\ \A j \in BatchCalls(p) : j < i =>
                     \A k \in DOMAIN calls[p][j].docs :
                       calls[p][j].docs[k]["_id"] \in Keys(store[box[p]])
      /\ (pc[p] = "done" /\ ret[p].err = "nil") =>
           /\ Submitted(p) = toInsert[p]
           /\ (Len(calls[p]) - 2) * BATCH_SIZE >= Len(toInsert[p])
           /\ (Len(calls[p]) - 3) * BATCH_SIZE < Len(toInsert[p]) \/ toInsert[p] = <<>>

\* the first batch of a file was stored, the second failed after storing one
\* of its two records, and the file ended with the store error
C19_Witness ==
  \E p \in Procs :
    /\ family[p] = "CSV"
    /\ Watermarked(p)
    /\ pc[p] = "done"
    /\ Len(calls[p]) = 4
    /\ ~calls[p][3].down
    /\ calls[p][4].down
    /\ Len(toInsert[p]) = 2 * BATCH_SIZE
    /\ ret[p].err = Unavailable
    /\ copies[p] = 1
    /\ calls[p][3].docs[1] \in store[box[p]]
    /\ calls[p][4].docs[1] \in store[box[p]]
    /\ calls[p][4].docs[2] \notin store[box[p]]

\* invocation p has processed a BaRia or AmChua file that yields a record,
\* and every store call it made reached the store
SingleRecordDone(p) ==
  /\ family[p] \in {"Baria", "AmChua"}
  /\ ~MalformedFilename(family[p], event[p].name)
  /\ ~(family[p] = "AmChua" /\ HasBadValue(family[p], event[p].content.lines))
  /\ pc[p] = "done"
  /\ \A i \in DOMAIN calls[p] : ~calls[p][i].down

\* p and q are two invocations of the same file, and no third invocation
\* has written the file's timestamp to a destination box: a record stored
\* there is the document of an accepted insert of p or of q
SameFileTwice(p, q) ==
  /\ p # q
  /\ event[p] = event[q]
  /\ SingleRecordDone(p)
  /\ SingleRecordDone(q)
  /\ \A i \in DOMAIN calls[p] :
       \A d \in store[calls[p][i].col] :
         d["_id"] = calls[p][i].docs[1]["_id"] =>
           \E r \in {p, q} :
             i \in DOMAIN calls[r] /\ IsFreshCall(calls[r][i]) /\ calls[r][i].docs[1] = d

\* C20: when two invocations process the same BaRia or AmChua file and no
\* other invocation writes its timestamp, then, however their store calls
\* interleave, every destination box ends with exactly one
\* record at the file's timestamp, both invocations end without an error,
\* and for every box exactly one of the two finds its insert accepted, which
\* is the one that counts it.
C20_OverlappingInvocations ==
  \A p, q \in Procs :
    SameFileTwice(p, q) =>
      /\ Len(calls[p]) = Len(calls[q])
      /\ Len(calls[p]) = IF family[p] = "AmChua" THEN Len(AmChuaBoxes) ELSE 1
      /\ \A i \in DOMAIN calls[p] :
           /\ calls[p][i].col = calls[q][i].col
           /\ calls[p][i].docs[1]["_id"] = calls[q][i].docs[1]["_id"]
           /\ Cardinality({d \in store[calls[p][i].col] :
                             d["_id"] = calls[p][i].docs[1]["_id"]}) = 1
           /\ IsFreshCall(calls[p][i]) # IsFreshCall(calls[q][i])
      /\ ret[p].err = "nil" /\ ret[q].err = "nil"
      /\ hret[p] = "nil" /\ hret[q] = "nil"
      /\ copies[p] = 0 /\ copies[q] = 0
      /\ ret[p].count = Cardinality({i \in DOMAIN calls[p] : IsFreshCall(calls[p][i])})
      /\ ret[p].count + ret[q].count = Len(calls[p])

\* two invocations of the same AmChua file both began before either wrote,
\* and each of them was first at some of the five boxes
C20_Witness ==
  \E p, q \in Procs :
    /\ SameFileTwice(p, q)
    /\ family[p] = "AmChua"
    /\ atStart[p] = {} /\ atStart[q] = {}
    /\ ret[p].count = 3
    /\ ret[q].count = 2
    /\ IsFreshCall(calls[q][1])
    /\ IsFreshCall(calls[p][2])
    /\ IsFreshCall(calls[q][3])

\* the part of the base name the family reads its timestamp from: the part
\* after the last underscore (BaRia), the whole base name (AmChua)
TimestampToken(fam, filename) ==
  IF fam = "Baria" THEN filename.base[Len(filename.base)] ELSE filename.base[1]

\* the epoch seconds of the date-time a token spells, in the configured
\* offset, with the seconds set to zero
EpochOfMinute(s) == DayEpoch + s.hh * 3600 + s.mm * 60 - TimezoneOffset * 3600

\* what the family's extraction makes of the name
Extracted(fam, filename) ==
  IF fam = "Baria" THEN ParseBariaTimestampFromFilename(filename)
  ELSE parseFilenameForTimestamp(filename)

IsRecordRow(row) ==
  /\ Len(row) >= 2
  /\ ParseInLocation("dashed", row[1].s).err = "nil"
  /\ row[2].num.ok

RecordRows(data) == SelectSeq(data, IsRecordRow)

\* the value columns of a row that hold a number, limited by row and header
ValueColumns(row, columns) ==
  {i \in 3..Len(row) : i <= Len(columns) /\ row[i].num.ok}

\* the key a header is emitted under, read off the alias table
ResolvedKey(h) ==
  IF \E i \in DOMAIN FieldNameMapping : FieldNameMapping[i].Alias = h
  THEN FieldNameMapping[CHOOSE i \in DOMAIN FieldNameMapping :
                          FieldNameMapping[i].Alias = h].Code
  ELSE h

\* the last value column of a row that is emitted under key k
LastColumnOf(row, columns, k) ==
  CHOOSE i \in ValueColumns(row, columns) :
    /\ ResolvedKey(columns[i]) = k
    /\ \A j \in ValueColumns(row, columns) : ResolvedKey(columns[j]) = k => j <= i

\* the tabular file of invocation p has been read without an error
TabularRead(p) ==
  /\ family[p] = "CSV"
  /\ ExtractData(event[p].content).err = "nil"

\* C22: every numeric value column of a tabular record row is emitted under
\* the canonical code when its header is an alias of the alias table
\* ("water_up" gives "WAU") and under the raw header otherwise ("foo_bar"
\* stays "foo_bar"); a header differing from an alias in letter case is no
\* alias; the record has no other value keys, and this is the record
\* handed to the store.
C22_AliasResolution ==
  /\ ResolvedKey("water_up") = "WAU"
  /\ ResolvedKey("foo_bar") = "foo_bar"
  /\ ResolvedKey("Water_Up") = "Water_Up"
  /\ \A p \in Procs :
       TabularRead(p) =>
         LET columns == event[p].content.columns
             rows == RecordRows(event[p].content.rows)
             recs == CsvRecords(event[p])
         IN  /\ Len(recs) = Len(rows)
             /\ \A j \in DOMAIN recs :
                  /\ \A i \in ValueColumns(rows[j], columns) :
                       LET k == ResolvedKey(columns[i])
                       IN  /\ k \in DOMAIN recs[j]
                           /\ recs[j][k] =
                                rows[j][LastColumnOf(rows[j], columns, k)].num.v
                  /\ DOMAIN recs[j] \ {"_id", "n"} \subseteq
                       {ResolvedKey(columns[i]) : i \in ValueColumns(rows[j], columns)}
             /\ \A i \in DOMAIN Submitted(p) :
                  \E j \in DOMAIN recs : Submitted(p)[i] = recs[j]

\* a stored record of a file with the headers water_up and foo_bar holds the
\* values under WAU and foo_bar, and one of a file with the header Water_Up
\* would hold it under Water_Up
C22_Witness ==
  \E p \in Procs :
    /\ TabularRead(p)
    /\ pc[p] = "done"
    /\ event[p].content.columns = <<"TIMESTAMP", "RECORD", "water_up", "foo_bar">>
    /\ box[p] \in BoxIds
    /\ \E d \in store[box[p]] :
         /\ d \in {Submitted(p)[i] : i \in DOMAIN Submitted(p)}
         /\ DOMAIN d = {"_id", "n", "WAU", "foo_bar"}
         /\ d["WAU"] = 4
         /\ d["foo_bar"] = 5


\* ProcessCSVFile of invocation p has returned, with an error / without one
PipelineFailed(p) == ret[p].err \notin {"nil", "none"}
PipelineSucceeded(p) == ret[p].err = "nil"

\* C23: the copy to load_failed is requested once, and exactly when
\* ProcessCSVFile returned an error: never for a stale or rejected event, a
\* file that ended without work, or a processed file; whether the copy
\* succeeds or fails, helloGCS returns nil, the step of the copy changes
\* neither the result of ProcessCSVFile nor the store, and after it the
\* invocation makes no store call and requests no other copy.
C23_FailedFolderCopy ==
  /\ [](\A p \in Procs :
          /\ copies[p] \in {0, 1}
          /\ copies[p] = 1 <=> copyErr[p] # "none"
          /\ copies[p] = 1 => pc[p] = "done" /\ PipelineFailed(p) /\ hret[p] = "nil"
          /\ pc[p] = "done" => (copies[p] = 1 <=> PipelineFailed(p))
          /\ (pc[p] = "done" /\ (Stale(p) \/ ~Admitted(p) \/ PipelineSucceeded(p)))
               => copies[p] = 0)
  /\ [][\A p \in Procs :
          /\ (copies[p] = 0 /\ copies'[p] = 1) =>
               /\ pc[p] = "fail"
               /\ ret' = ret
               /\ store' = store
               /\ calls' = calls
               /\ faults' = faults
          /\ copies[p] = 1 =>
               \/ /\ ret'[p] = ret[p] /\ hret'[p] = hret[p] /\ calls'[p] = calls[p]
                  /\ copies'[p] = 1 /\ copyErr'[p] = copyErr[p] /\ pc'[p] = "done"
               \/ pc'[p] = "idle" /\ calls'[p] = <<>> /\ copies'[p] = 0]_vars

\* an invocation whose pipeline failed has ended with nil although the copy
\* to load_failed failed too
C23_Witness ==
  \E p \in Procs :
    /\ pc[p] = "done"
    /\ PipelineFailed(p)
    /\ copies[p] = 1
    /\ copyErr[p] # "nil"
    /\ hret[p] = "nil"


\* the boxes whose collection the file of invocation p is destined for: the
\* first box of BoxesBR with a path hint (BaRia), every box of AmChuaBoxes
\* (AmChua), the box registered for the device of the meta row (tabular)
Destinations(p) ==
  IF family[p] = "Baria" THEN FamilyCollections("Baria", event[p].name)
  ELSE IF family[p] = "AmChua" THEN FamilyCollections("AmChua", event[p].name)
  ELSE IF family[p] = "CSV" /\ Len(event[p].content.meta) >= 4
  THEN {BoxCollection[d] : d \in {<<event[p].content.meta[3], event[p].content.meta[4]>>}
                                   \cap DOMAIN BoxCollection}
  ELSE {}

\* the calls of invocation p that write
WriteCalls(p) == {i \in DOMAIN calls[p] : calls[p][i].op \in {"InsertOne", "InsertMany"}}

\* C24: every write of an invocation goes to the collection of one of its
\* destination boxes, and a step changes no collection but the one its
\* write addresses: a BaRia file with a well-formed name makes exactly one
\* insert, into the collection of the matched box; an AmChua file makes at
\* most one insert per box of AmChuaBoxes and none elsewhere; a tabular file
\* writes only to the collection of the box found for its device.
C24_WriteFootprint ==
  /\ [](\A p \in Procs :
          /\ \A i \in WriteCalls(p) : calls[p][i].col \in Destinations(p)
          /\ family[p] = "Baria" =>
               /\ Cardinality(WriteCalls(p)) <= 1
               /\ (pc[p] \in {"done", "fail"} /\ ~MalformedFilename("Baria", event[p].name))
                    => Cardinality(WriteCalls(p)) = 1
          /\ family[p] = "AmChua" =>
               \A i, j \in WriteCalls(p) : calls[p][i].col = calls[p][j].col => i = j
          /\ family[p] = "CSV" =>
               \A i \in WriteCalls(p) : calls[p][i].op = "InsertMany"
          /\ family[p] = "none" => calls[p] = <<>>)
  /\ [][\A id \in BoxIds :
          store'[id] # store[id] =>
            \E p \in Procs :
              /\ Len(calls'[p]) = Len(calls[p]) + 1
              /\ Len(calls'[p]) \in WriteCalls(p)'
              /\ calls'[p][Len(calls'[p])].col = id
              /\ id \in Destinations(p)
              /\ \A other \in BoxIds \ {id} : store'[other] = store[other]]_vars

\* an AmChua file has made one insert into each of its boxes while the
\* collection of another box holds the record of an earlier file and the
\* remaining collections are empty
C24_Witness ==
  \E p \in Procs :
    /\ family[p] = "AmChua"
    /\ pc[p] = "done"
    /\ Cardinality(WriteCalls(p)) = Len(AmChuaBoxes)
    /\ {calls[p][i].col : i \in WriteCalls(p)} = Destinations(p)
    /\ \A id \in Destinations(p) : store[id] # {}
    /\ \E id \in BoxIds \ Destinations(p) : store[id] # {}
    /\ \E id \in BoxIds \ Destinations(p) : store[id] = {}


\* C25 (as claimed): when the tabular writer returns without an error, its
\* count is the number of records the invocation added to the collection
\* of its box: the keys stored now that were not stored when it read the
\* watermark (one invocation at a time).
C25_CountIsAdded ==
  \A p \in Procs :
    (family[p] = "CSV" /\ pc[p] = "done" /\ ret[p].err = "nil" /\ Watermarked(p)) =>
      ret[p].count = Cardinality(Keys(store[box[p]]) \ calls[p][2].before)


\* the store answered every call of invocation p
StoreAvailable(p) == \A i \in DOMAIN calls[p] : ~calls[p][i].down

\* C26 (as claimed): a tabular file is delivered again after a delivery of
\* it failed with part of its records stored; when the new delivery has
\* been processed with the store available, the collection of the box holds
\* a record for every valid row timestamp of the file, whatever the order
\* of its rows.
C26_ConvergenceOnRedelivery ==
  \A p \in Procs :
    (/\ family[p] = "CSV"
     /\ pc[p] = "done"
     /\ clock >= 2
     /\ faults >= 1
     /\ StoreAvailable(p)
     /\ Watermarked(p)
     /\ calls[p][2].before # {}) =>
      \A i \in DOMAIN CsvRecords(event[p]) :
        CsvRecords(event[p])[i]["_id"] \in Keys(store[box[p]])


\* the epoch second of a time cell, seconds kept
EpochOfSecond(s) == EpochOfMinute(s) + s.ss

\* a header of the value columns is one of the two keys every record has
ReservedHeader(columns) == \E i \in 3..Len(columns) : columns[i] \in {"_id", "n"}

\* C27: a tabular file gives one record per row that has at least two
\* columns, a time in the first and a number in the second, in the order of
\* the rows; every other row is left out and the file still ends without an
\* error; a value column whose cell is no number is left out of the record
\* of its row, and value columns end with the shorter of row and header.
C27_TabularRowPolicy ==
  \A p \in Procs :
    LET e == event[p] IN
    (family[p] = "CSV" /\ ~MalformedContent("CSV", e.content)) =>
      LET columns == e.content.columns
          rows == RecordRows(e.content.rows)
          recs == CsvRecords(e)
      IN  /\ ExtractData(e.content).err = "nil"
          /\ pc[p] # "fail" \/ ~StoreAvailable(p)
          /\ Len(recs) = Len(rows)
          /\ \A j \in DOMAIN recs :
               /\ ~ReservedHeader(columns) =>
                    /\ recs[j]["_id"] = EpochOfSecond(rows[j][1].s)
                    /\ recs[j]["n"] = rows[j][2].num.v
               /\ DOMAIN recs[j] =
                    {"_id", "n"} \cup
                    {ResolvedKey(columns[i]) :
                       i \in {c \in 3..Len(rows[j]) : c <= Len(columns) /\ rows[j][c].num.ok}}
          /\ (pc[p] = "done" /\ StoreAvailable(p) /\ Watermarked(p)
                /\ calls[p][2].before = {}) =>
               /\ ret[p].err = "nil"
               /\ Submitted(p) = recs

\* a file of a row without a time and a row with a text in its first value
\* column has ended without an error; its one record has no key for that column
C27_Witness ==
  \E p \in Procs :
    /\ family[p] = "CSV"
    /\ pc[p] = "done"
    /\ ret[p] = [count |-> 1, err |-> "nil"]
    /\ Len(event[p].content.rows) = 2
    /\ event[p].content.columns = <<"TIMESTAMP", "RECORD", "water_up", "foo_bar">>
    /\ ~IsRecordRow(event[p].content.rows[1])
    /\ Len(event[p].content.rows[2]) >= 3
    /\ event[p].content.rows[2][3] = TextCell
    /\ \E d \in store[box[p]] : DOMAIN d = {"_id", "n", "foo_bar"} /\ d["foo_bar"] = 5


\* C28 (as claimed): in every record of a tabular file _id is the epoch
\* second of the row's time column and n is the number of its second
\* column, whatever the headers of the value columns are.
C28_PrimaryKeyProtected ==
  \A p \in Procs :
    TabularRead(p) =>
      LET rows == RecordRows(event[p].content.rows)
          recs == CsvRecords(event[p])
      IN  /\ Len(recs) = Len(rows)
          /\ \A j \in DOMAIN recs :
               /\ recs[j]["_id"] = EpochOfSecond(rows[j][1].s)
               /\ recs[j]["n"] = rows[j][2].num.v
          /\ \A i \in DOMAIN Submitted(p) :
               \E j \in DOMAIN recs :
                 /\ Submitted(p)[i]["_id"] = EpochOfSecond(rows[j][1].s)
                 /\ Submitted(p)[i]["n"] = rows[j][2].num.v


\* C29: after initialization the maximum event age in force is, for every
\* integer configured (negative ones and 1..299 too), either 0, and that
\* only for a configured 0, or at least 300 (the configured value when that
\* is 300 or more); without a value, or with one that is no integer, it is
\* 86400: so an event up to 300 s old is never dropped for its age.
C29_EffectiveMaxAge ==
  LET env == config.env
      m == config.maxAge
  IN  /\ (env.set /\ env.int) =>
           /\ m = 0 \/ m >= 300
           /\ m = 0 <=> env.n = 0
           /\ env.n >= 300 => m = env.n
      /\ ~(env.set /\ env.int) => m = 86400
      /\ \A p \in Procs :
           (/\ pc[p] # "idle"
            /\ event[p].named
            /\ event[p].age <= 300
            /\ ShouldProcessFile(event[p].name, config.allow, config.ignore))
             => Admitted(p)

\* under a configured -1 the maximum age in force is 300: an event 301 s old
\* was dropped
C29_Witness ==
  \E p \in Procs :
    /\ config.env = EnvInt(-1)
    /\ config.maxAge = 300
    /\ event[p].age = 301
    /\ Stale(p)
    /\ pc[p] = "done"
    /\ ~Admitted(p)


\* C30 (as claimed): under every configuration of the pattern sets
\* ShouldProcessFile answers true exactly when no ignore pattern matches the
\* file and an allow pattern matches it or none is set, that is, as
\* (not MatchesIgnorePatterns) and MatchesAllowPatterns; and helloGCS hands
\* the file to ProcessCSVFile exactly then.
C30_ShouldProcessFileAsDocumented ==
  \A p \in Procs :
    (pc[p] # "idle" /\ event[p].named) =>
      LET f == event[p].name
          documented == /\ ~MatchesIgnorePatterns(f, config.ignore)
                        /\ MatchesAllowPatterns(f, config.allow)
      IN  /\ ShouldProcessFile(f, config.allow, config.ignore) <=> documented
          /\ documented <=>
               /\ \A i \in DOMAIN config.ignore : ~MatchString(config.ignore[i], f)
               /\ \/ \E i \in DOMAIN config.allow : MatchString(config.allow[i], f)
                  \/ config.allow = <<>>
          /\ Screened(p) => (Admitted(p) <=> documented)

====
